---- MODULE Spec2Model ----
(***************************************************************************)
(* Collaborative task board: the task routes (routes/tasks.js), the Task   *)
(* and Activity schemas (models/), the socket layer and the stale edit     *)
(* session sweep (socket/socketHandler.js), the board component of the     *)
(* client (components/AuthForm.tsx).                                       *)
(*                                                                         *)
(* The specifications share the same state and the same handler code:      *)
(*   Spec      every request handler and the sweep run to completion in    *)
(*             one step (requests served one after the other);             *)
(*   SpecAnyBody  Spec, with PUT bodies that also carry a version key;     *)
(*   SpecFair  the requests that read or write a lock, with a clock that   *)
(*             advances and a sweep that keeps firing;                     *)
(*   SpecRace  every handler is cut at its awaits: the step that reads the *)
(*             task (findById and the synchronous code up to the next      *)
(*             await) and the step that saves it are separate, so that     *)
(*             requests and the sweep interleave;                          *)
(*   SpecTitle create and PUT with title bodies, cut at their awaits;      *)
(*   SpecSelect  smart-assign on every small board and users collection;   *)
(*   SpecSocket  the socket layer: handshake, connection, client events,   *)
(*             disconnect; SpecSocketLock adds create and start-edit.      *)
(*   SpecDelete  create, delete and smart-assign;                          *)
(*   SpecCreatedBy  PUT bodies that carry a createdBy key;                 *)
(*   SpecLogFail  the handlers while the database fails after the task     *)
(*             was written;                                                *)
(*   SpecBoard, SpecEvents, SpecDrag, SpecWrites  the board component of   *)
(*             one client (components/AuthForm.tsx, TodoBoard): its fetch, *)
(*             its socket listeners, its drag handlers and its modal; a    *)
(*             handler of the component and the requests it awaits are one *)
(*             step.                                                       *)
(*   SpecOrder  create, PUT and reorder of one task at a time;             *)
(*   SpecFrame  the requests addressed to one task, on a full board;       *)
(*   SpecConverge, SpecExpire  the peer's client emits the event of each   *)
(*             request the server accepted, the server relays it, and the  *)
(*             listeners of the board component handle the events in the   *)
(*             order they arrive; SpecExpire has the clock and the sweep.  *)
(*                                                                         *)
(* task.save() is Mongoose's save: it writes the paths of the document     *)
(* that were modified since it was read ($set of the modified paths,       *)
(* filter {_id}); a path assigned a value equal to the one it holds is not *)
(* modified.  Time is in milliseconds.                                     *)
(***************************************************************************)
EXTENDS Integers, Sequences, FiniteSets, TLC

(***************************************************************************)
(* Bounds of the model.                                                    *)
(***************************************************************************)
MaxTasks == 2
MaxVersion == 2
MaxActs == 2
MaxSockets == 2
\* the most relayed events that wait at the board component
MaxInbox == 2

(***************************************************************************)
(* Values.                                                                 *)
(***************************************************************************)
Users == {"u1", "u2"}
\* User.find({}) returns the users in their natural (insertion) order
UserList == <<"u1", "u2">>
NULL == "null"
NoTime == -1
NoId == 0
TaskIds == 1..MaxTasks
\* a title is the sequence of its characters
Titles == {<<"A">>, <<"B">>}
Statuses == {"todo", "in-progress", "done"}
Minute == 60 * 1000
\* the instants at which the model looks at the clock: server start, exactly
\* 5 minutes later, 301 seconds later
Instants == {0, 300000, 301000}

\* the clock counts from the start of the server, ServerStart after the epoch
\* (any value above the timeouts)
ServerStart == 60 * Minute

\* const editTimeout = 5 * 60 * 1000 in PUT /:id
updateEditTimeout == 5 * 60 * 1000
\* const editTimeout = 5 * 60 * 1000 in POST /:id/start-edit
startEditTimeout == 5 * 60 * 1000
\* const staleTimeout = 5 * 60 * 1000 in the sweep
staleTimeoutHour == 60 * 60 * 1000

staleTimeout == 5 * 60 * 1000

\* the sockets of the model
SocketIds == 1..MaxSockets
\* a socket that no client has opened yet
NoSocket == [state |-> "none", userId |-> NULL]
\* no socket event
NoSent == [socket |-> 0, event |-> "none", data |-> <<>>]
\* useState<TasksByStatus>, AuthForm.tsx lines 179-183
NoTasks == [s \in Statuses |-> <<>>]
\* a step of the board component: the handler that ran, the task and the
\* status it was about, whether a state updater threw, whether the server
\* refused a write of the handler, and the socket events the handler emitted
ClientOut(handler, id, status, threw, failed, emitted) ==
  [handler |-> handler, id |-> id, status |-> status, threw |-> threw, failed |-> failed,
   emitted |-> emitted]
NoClientOut == ClientOut("none", NoId, "", FALSE, FALSE, <<>>)

VARIABLES
  store,       \* the tasks collection: task id -> task document
  nextId,      \* the next fresh _id (ids are never reused)
  now,         \* the clock, new Date() / Date.now()
  activities,  \* the activities collection, in insertion order
  resp,        \* the response sent by the step just taken, with its request
  ioEvents,    \* the events emitted with io.emit by the step just taken
  reqs,        \* per user: the request in flight between two awaits
  sweep,       \* the sweep callback between its awaits
  userColl,    \* the users collection, as User.find({}) returns it
  sockets,     \* per socket: its state and the user its credential resolved to
  connectedUsers,  \* the Map connectedUsers, in insertion order
  sent,        \* the socket event handled by the step just taken
  delivered,   \* the events the step just taken delivered, in order
  tasksByStatus,  \* the board component's state tasks: status -> column
  editingTask,    \* the board component's state editingTask (NoId: null)
  showTaskModal,  \* the board component's state showTaskModal
  clientOut,   \* what the board component did in the step just taken
  inbox        \* the socket events relayed to the board component, not yet handled

\* the socket layer
sockVars == <<sockets, connectedUsers, sent, delivered>>

\* the board component of one client
clientVars == <<tasksByStatus, editingTask, showTaskModal, clientOut, inbox>>

vars == <<store, nextId, now, activities, resp, ioEvents, reqs, sweep, userColl, sockVars,
          clientVars>>

Idle == [pc |-> "idle"]
NoDoc == [none |-> TRUE]
NoResp == [user |-> NULL, op |-> "none", id |-> NoId, code |-> 0, conflict |-> FALSE,
           task |-> NoDoc]
\* res.status(code).json(...) answering the request op of user u on task id;
\* task is the document the handler read with findById (NoDoc: none)
Resp(u, op, id, code, task) ==
  [user |-> u, op |-> op, id |-> id, code |-> code, conflict |-> FALSE, task |-> task]

(***************************************************************************)
(* The Task schema: a new document with the schema defaults.               *)
(***************************************************************************)
NewTask(title, assignedTo, createdBy, order) ==
  [title |-> title, status |-> "todo", assignedTo |-> assignedTo,
   createdBy |-> createdBy, order |-> order,
   isBeingEdited |-> FALSE, editedBy |-> NULL, editStartTime |-> NoTime,
   version |-> 1]

\* the paths of a task document (description and priority are plain fields
\* like status; lastModifiedBy, createdAt, updatedAt and conflictVersions
\* are written and never read by the server)
TaskPaths == {"title", "status", "assignedTo", "createdBy", "order",
              "isBeingEdited", "editedBy", "editStartTime", "version"}

(***************************************************************************)
(* The title path: trim: true, required, and the validator of lines 61-68. *)
(* (maxlength 100 is not modelled: the titles of the model are short.)     *)
(***************************************************************************)
UpperChars == <<"A", "B", "C", "D", "E", "F", "G", "H", "I", "J", "K", "L", "M",
                "N", "O", "P", "Q", "R", "S", "T", "U", "V", "W", "X", "Y", "Z">>
LowerChars == <<"a", "b", "c", "d", "e", "f", "g", "h", "i", "j", "k", "l", "m",
                "n", "o", "p", "q", "r", "s", "t", "u", "v", "w", "x", "y", "z">>

LowerChar(c) ==
  IF \E i \in 1..Len(UpperChars) : UpperChars[i] = c
  THEN LowerChars[CHOOSE i \in 1..Len(UpperChars) : UpperChars[i] = c]
  ELSE c

\* String.prototype.toLowerCase
toLowerCase(value) == [i \in 1..Len(value) |-> LowerChar(value[i])]

\* String.prototype.trim: the blanks at both ends are removed
RECURSIVE trim(_)
trim(value) ==
  IF value = <<>> THEN value
  ELSE IF Head(value) = " " THEN trim(Tail(value))
  ELSE IF value[Len(value)] = " " THEN trim(SubSeq(value, 1, Len(value) - 1))
  ELSE value

\* const forbiddenNames = ['todo', 'in progress', 'done', 'to do', 'in-progress']
forbiddenNames ==
  {<<"t", "o", "d", "o">>,
   <<"i", "n", " ", "p", "r", "o", "g", "r", "e", "s", "s">>,
   <<"d", "o", "n", "e">>,
   <<"t", "o", " ", "d", "o">>,
   <<"i", "n", "-", "p", "r", "o", "g", "r", "e", "s", "s">>}

\* validator: function(value), lines 62-66
titleValidatorExact(value) == value \notin forbiddenNames

titleValidator(value) == toLowerCase(value) \notin forbiddenNames

\* the validation of the title path when the document is saved: required,
\* then the validator
ValidTitle(value) == value # <<>> /\ titleValidator(value)

(***************************************************************************)
(* task.save(): $set of the paths whose value differs from the value read. *)
(* cur is the stored document, snap the document as read, doc the          *)
(* document after the handler's assignments.                               *)
(***************************************************************************)
SaveDelta(cur, snap, doc) ==
  [k \in TaskPaths |-> IF doc[k] # snap[k] THEN doc[k] ELSE cur[k]]

\* the modified paths of the document
Modified(snap, doc) == {k \in TaskPaths : doc[k] # snap[k]}

\* a save whose update is not addressed by _id: every document receives the
\* modified paths
taskSaveAll(st, id, doc) == [o \in DOMAIN st |-> SaveDelta(st[o], st[id], doc)]

\* await task.save() of a handler that read the document in the same step:
\* the update is addressed to the document by its _id
taskSave(st, id, doc) == [st EXCEPT ![id] = SaveDelta(@, @, doc)]

(***************************************************************************)
(* logActivity: the Activity schema requires action, taskId, userId; a     *)
(* failed save is caught and logged, nothing is appended.                  *)
(***************************************************************************)
logActivityLatestOnly(log, action, taskId, userId) ==
  IF taskId = NoId \/ userId = NULL
  THEN log
  ELSE <<[action |-> action, taskId |-> taskId, userId |-> userId]>>

logActivity(log, action, taskId, userId) ==
  IF taskId = NoId \/ userId = NULL
  THEN log
  ELSE Append(log, [action |-> action, taskId |-> taskId, userId |-> userId])

(***************************************************************************)
(* Expiry tests.                                                           *)
(***************************************************************************)
\* new Date() - task.editStartTime: a null date converts to 0
Elapsed(t, startTime) == IF startTime = NoTime THEN ServerStart + t ELSE t - startTime

\* PUT /:id, lines 147-152
UpdateConflictInverted(task, u, t) ==
  /\ task.isBeingEdited /\ task.editedBy # NULL /\ task.editedBy # u
  /\ Elapsed(t, task.editStartTime) >= updateEditTimeout

UpdateConflict(task, u, t) ==
  /\ task.isBeingEdited /\ task.editedBy # NULL /\ task.editedBy # u
  /\ Elapsed(t, task.editStartTime) < updateEditTimeout

\* POST /:id/start-edit, lines 387-391
StartEditConflictNoExpiry(task, u, t) ==
  task.isBeingEdited /\ task.editedBy # NULL /\ task.editedBy # u

StartEditConflict(task, u, t) ==
  /\ task.isBeingEdited /\ task.editedBy # NULL /\ task.editedBy # u
  /\ Elapsed(t, task.editStartTime) < startEditTimeout

\* the sweep's query {isBeingEdited: true, editStartTime: {$lt: staleTime}}
\* ($lt never matches a null date)
StaleAll(task, staleTime) == task.isBeingEdited

Stale(task, staleTime) ==
  task.isBeingEdited /\ task.editStartTime # NoTime /\ task.editStartTime < staleTime

(***************************************************************************)
(* The documents the handlers build before saving.                         *)
(***************************************************************************)
\* start-edit, lines 400-402
StartEditDocKeepTime(task, u, t) ==
  [task EXCEPT !.isBeingEdited = TRUE, !.editedBy = u]

StartEditDoc(task, u, t) ==
  [task EXCEPT !.isBeingEdited = TRUE, !.editedBy = u, !.editStartTime = t]

\* end-edit, line 426
EndEditHolderAny(task, u) == task.editedBy # NULL

EndEditHolder(task, u) == task.editedBy # NULL /\ task.editedBy = u

\* end-edit, lines 427-429
EndEditDoc(task) ==
  [task EXCEPT !.isBeingEdited = FALSE, !.editedBy = NULL, !.editStartTime = NoTime]

\* PUT, lines 184-188: every key of the body except _id, createdAt, updatedAt
\* is assigned to the document (keys outside the schema are not stored); the
\* title path trims the value assigned to it
ApplyUpdates(task, body) ==
  [k \in TaskPaths |-> IF k \in DOMAIN body
                       THEN IF k = "title" THEN trim(body[k]) ELSE body[k]
                       ELSE task[k]]

\* PUT, lines 184-194
UpdateDoc(task, body, u) ==
  [ApplyUpdates(task, body) EXCEPT
     !.version = ApplyUpdates(task, body).version + 1,
     !.isBeingEdited = FALSE, !.editedBy = NULL, !.editStartTime = NoTime]

\* PUT, lines 173-181 and the unique index on title: a task other than id
\* holds the title
TitleTakenNever(st, id, title) == FALSE

TitleTaken(st, id, title) == \E o \in DOMAIN st : o # id /\ st[o].title = title

\* PUT, lines 173-180: the title check answers 400
UpdateTitleExists(st, id, body) ==
  /\ "title" \in DOMAIN body
  /\ body.title # <<>>
  /\ body.title # st[id].title
  /\ TitleTaken(st, id, trim(body.title))

\* task.save() of PUT throws a ValidationError: the title was modified and
\* does not pass the schema, or the status was modified and is not in the
\* schema's enum
UpdateInvalid(task, body, u) ==
  \/ /\ UpdateDoc(task, body, u).title # task.title
     /\ ~ValidTitle(UpdateDoc(task, body, u).title)
  \/ /\ UpdateDoc(task, body, u).status # task.status
     /\ UpdateDoc(task, body, u).status \notin Statuses

\* PUT /:id, lines 141-194 and 249-262: the status code of the response
UpdateCode(st, u, id, body, t) ==
  IF id \notin DOMAIN st THEN 404
  ELSE IF UpdateConflict(st[id], u, t) THEN 409
  ELSE IF UpdateTitleExists(st, id, body) \/ UpdateInvalid(st[id], body, u) THEN 400
  ELSE 200

\* POST /, lines 71-85 and 116-125: the status code of the response
CreateCode(st, title, assignedTo) ==
  IF \/ title = <<>> \/ assignedTo = NULL
     \/ \E id \in DOMAIN st : st[id].title = trim(title)
     \/ assignedTo \notin Users
     \/ ~ValidTitle(trim(title))
  THEN 400
  ELSE 201

\* PUT, lines 164-170 and 201-246: one activity per changed logged field, in
\* the order of the body's keys (taken here as title, status, assignedTo)
LoggedFields == <<"title", "status", "assignedTo">>

FieldAction(field) ==
  IF field = "status" THEN "move" ELSE IF field = "assignedTo" THEN "assign" ELSE "update"

RECURSIVE LogUpdates(_, _, _, _, _, _)
LogUpdates(log, i, prev, body, id, u) ==
  IF i > Len(LoggedFields) THEN log
  ELSE LET f == LoggedFields[i] IN
       IF f \in DOMAIN body /\ prev[f] # body[f]
       THEN LogUpdates(logActivity(log, FieldAction(f), id, u), i + 1, prev, body, id, u)
       ELSE LogUpdates(log, i + 1, prev, body, id, u)

\* the number of activities an update appends
UpdateLogCount(prev, body) ==
  Cardinality({i \in 1..Len(LoggedFields) :
                 LoggedFields[i] \in DOMAIN body /\ prev[LoggedFields[i]] # body[LoggedFields[i]]})

(***************************************************************************)
(* Delete, lines 279-285: the requester is neither the creator nor the     *)
(* assignee of the task.                                                   *)
(***************************************************************************)
DeleteForbiddenCreatorOnly(task, u) == task.createdBy # u

DeleteForbidden(task, u) == task.createdBy # u /\ task.assignedTo # u

(***************************************************************************)
(* Smart assign, lines 28-48 and 317-335.                                  *)
(***************************************************************************)
getTaskCounts(st) ==
  [u \in Users |->
     Cardinality({id \in DOMAIN st :
                    st[id].status \in {"todo", "in-progress"} /\ st[id].assignedTo = u})]

\* users.forEach with a strict <: the first user with the fewest tasks
RECURSIVE SelectFrom(_, _, _, _, _)
SelectFrom(users, counts, i, minTasks, selected) ==
  IF i > Len(users) THEN selected
  ELSE IF minTasks = -1 \/ counts[users[i]] < minTasks
       THEN SelectFrom(users, counts, i + 1, counts[users[i]], users[i])
       ELSE SelectFrom(users, counts, i + 1, minTasks, selected)

\* minTasks = Infinity is written -1
selectedUserFirst(users, counts) == IF Len(users) = 0 THEN NULL ELSE users[1]

selectedUser(users, counts) == SelectFrom(users, counts, 1, -1, NULL)

\* lines 337-340
SmartAssignDoc(task, sel, u) ==
  [task EXCEPT !.assignedTo = sel, !.version = task.version + 1]

(***************************************************************************)
(* Reorder, lines 449-461: one updateOne per entry, in order; an entry     *)
(* whose _id matches no task updates nothing.                              *)
(***************************************************************************)
ReorderEntryKeepOrder(st, e, u) ==
  IF e.id \in DOMAIN st
  THEN [st EXCEPT ![e.id] = [st[e.id] EXCEPT !.status = e.status,
                                             !.version = st[e.id].version + 1]]
  ELSE st

ReorderEntry(st, e, u) ==
  IF e.id \in DOMAIN st
  THEN [st EXCEPT ![e.id] = [st[e.id] EXCEPT !.status = e.status, !.order = e.order,
                                             !.version = st[e.id].version + 1]]
  ELSE st

RECURSIVE bulkWrite(_, _, _, _)
bulkWrite(st, tasks, i, u) ==
  IF i > Len(tasks) THEN st
  ELSE bulkWrite(ReorderEntry(st, tasks[i], u), tasks, i + 1, u)

(***************************************************************************)
(* The sweep, lines 205-233.                                               *)
(***************************************************************************)
IdSeq == [i \in 1..MaxTasks |-> i]

\* Task.find(...): the stale tasks, in _id order
staleTasks(st, staleTime) ==
  LET IsStale(id) == id \in DOMAIN st /\ Stale(st[id], staleTime)
  IN SelectSeq(IdSeq, IsStale)

\* Task.updateMany(...)
updateMany(st, staleTime) ==
  [id \in DOMAIN st |-> IF Stale(st[id], staleTime) THEN EndEditDoc(st[id]) ELSE st[id]]

\* staleTasks.forEach(task => io.emit('edit_session_expired', ...))
Expired(found) ==
  [i \in 1..Len(found) |-> [event |-> "edit_session_expired", taskId |-> found[i]]]

(***************************************************************************)
(* Initial state: empty collections, no request in flight; the board       *)
(* component as its useState calls leave it.                               *)
(***************************************************************************)
InitClient ==
  /\ tasksByStatus = NoTasks
  /\ editingTask = NoId
  /\ showTaskModal = FALSE
  /\ clientOut = NoClientOut
  /\ inbox = <<>>

Init ==
  /\ store = <<>>
  /\ nextId = 1
  /\ now = 0
  /\ activities = <<>>
  /\ resp = NoResp
  /\ ioEvents = <<>>
  /\ reqs = [u \in Users |-> Idle]
  /\ sweep = Idle
  /\ userColl = UserList
  /\ sockets = [s \in SocketIds |-> NoSocket]
  /\ connectedUsers = <<>>
  /\ sent = NoSent
  /\ delivered = <<>>
  /\ InitClient

\* a step of the server: the board component handles nothing
NoClientStep ==
  /\ clientOut' = NoClientOut
  /\ UNCHANGED <<tasksByStatus, editingTask, showTaskModal, inbox>>

\* a step of the task layer: no socket event is handled
NoSocketStep ==
  /\ sent' = NoSent
  /\ delivered' = <<>>
  /\ UNCHANGED <<userColl, sockets, connectedUsers>>
  /\ NoClientStep

\* a step of the socket layer: no request is answered, the sweep emits nothing
NoTaskStep ==
  /\ resp' = NoResp
  /\ ioEvents' = <<>>
  /\ UNCHANGED <<store, nextId, now, activities, reqs, sweep, userColl>>
  /\ NoClientStep

\* time passes
Tick(t) ==
  /\ t > now
  /\ now' = t
  /\ resp' = NoResp
  /\ ioEvents' = <<>>
  /\ UNCHANGED <<store, nextId, activities, reqs, sweep>>
  /\ NoSocketStep

(***************************************************************************)
(* Handlers run to completion (Spec).                                      *)
(***************************************************************************)
\* POST /, lines 88-89: the order after the last task of the todo column
nextOrder(st) ==
  LET todo == {id \in DOMAIN st : st[id].status = "todo"}
  IN IF todo = {} THEN 0
     ELSE 1 + CHOOSE o \in {st[id].order : id \in todo} :
                \A id \in todo : st[id].order <= o

\* POST /, lines 67-129
Create(u, title, assignedTo) ==
  /\ ioEvents' = <<>>
  /\ UNCHANGED <<now, reqs, sweep>>
  /\ NoSocketStep
  /\ IF \/ title = <<>> \/ assignedTo = NULL
        \/ \E id \in DOMAIN store : store[id].title = trim(title)
        \/ assignedTo \notin Users
        \/ ~ValidTitle(trim(title))
     THEN /\ resp' = Resp(u, "create", NoId, 400, NoDoc)
          /\ UNCHANGED <<store, nextId, activities>>
     ELSE LET order == nextOrder(store)
          IN /\ nextId <= MaxTasks
             /\ Len(activities) < MaxActs
             /\ store' = (nextId :> NewTask(trim(title), assignedTo, u, order)) @@ store
             /\ nextId' = nextId + 1
             /\ activities' = logActivity(activities, "create", nextId, u)
             /\ resp' = Resp(u, "create", nextId, 201, NoDoc)

\* POST /:id/start-edit, lines 373-410
StartEdit(u, id) ==
  /\ ioEvents' = <<>>
  /\ UNCHANGED <<nextId, now, activities, reqs, sweep>>
  /\ NoSocketStep
  /\ IF id \notin DOMAIN store
     THEN resp' = Resp(u, "start-edit", id, 404, NoDoc) /\ UNCHANGED store
     ELSE IF StartEditConflict(store[id], u, now)
     THEN resp' = Resp(u, "start-edit", id, 409, store[id]) /\ UNCHANGED store
     ELSE /\ store' = taskSave(store, id, StartEditDoc(store[id], u, now))
          /\ resp' = Resp(u, "start-edit", id, 200, store[id])

\* POST /:id/end-edit, lines 413-438
EndEdit(u, id) ==
  /\ ioEvents' = <<>>
  /\ UNCHANGED <<nextId, now, activities, reqs, sweep>>
  /\ NoSocketStep
  /\ IF id \notin DOMAIN store
     THEN resp' = Resp(u, "end-edit", id, 404, NoDoc) /\ UNCHANGED store
     ELSE /\ store' = IF EndEditHolder(store[id], u)
                      THEN taskSave(store, id, EndEditDoc(store[id]))
                      ELSE store
          /\ resp' = Resp(u, "end-edit", id, 200, store[id])

\* PUT /:id, lines 132-263
Update(u, id, body) ==
  /\ ioEvents' = <<>>
  /\ UNCHANGED <<nextId, now, reqs, sweep>>
  /\ NoSocketStep
  /\ IF id \notin DOMAIN store
     THEN resp' = Resp(u, "update", id, 404, NoDoc) /\ UNCHANGED <<store, activities>>
     ELSE IF UpdateConflict(store[id], u, now)
     THEN /\ resp' = [Resp(u, "update", id, 409, store[id]) EXCEPT !.conflict = TRUE]
          /\ UNCHANGED <<store, activities>>
     ELSE IF UpdateTitleExists(store, id, body) \/ UpdateInvalid(store[id], body, u)
     THEN resp' = Resp(u, "update", id, 400, store[id]) /\ UNCHANGED <<store, activities>>
     ELSE /\ UpdateDoc(store[id], body, u).version <= MaxVersion
          /\ Len(activities) + UpdateLogCount(store[id], body) <= MaxActs
          /\ store' = taskSave(store, id, UpdateDoc(store[id], body, u))
          /\ activities' = LogUpdates(activities, 1, store[id], body, id, u)
          /\ resp' = Resp(u, "update", id, 200, store[id])

\* DELETE /:id, lines 266-301
Delete(u, id) ==
  /\ ioEvents' = <<>>
  /\ UNCHANGED <<nextId, now, reqs, sweep>>
  /\ NoSocketStep
  /\ IF id \notin DOMAIN store
     THEN resp' = Resp(u, "delete", id, 404, NoDoc) /\ UNCHANGED <<store, activities>>
     ELSE IF DeleteForbidden(store[id], u)
     THEN resp' = Resp(u, "delete", id, 403, store[id]) /\ UNCHANGED <<store, activities>>
     ELSE /\ Len(activities) < MaxActs
          /\ store' = [i \in DOMAIN store \ {id} |-> store[i]]
          /\ activities' = logActivity(activities, "delete", id, u)
          /\ resp' = Resp(u, "delete", id, 200, store[id])

\* POST /:id/smart-assign, lines 304-370
SmartAssign(u, id) ==
  /\ ioEvents' = <<>>
  /\ UNCHANGED <<nextId, now, reqs, sweep>>
  /\ NoSocketStep
  /\ IF id \notin DOMAIN store
     THEN resp' = Resp(u, "smart-assign", id, 404, NoDoc) /\ UNCHANGED <<store, activities>>
     ELSE LET sel == selectedUser(userColl, getTaskCounts(store)) IN
       IF sel = NULL
       THEN resp' = Resp(u, "smart-assign", id, 400, store[id]) /\ UNCHANGED <<store, activities>>
       ELSE /\ store[id].version < MaxVersion
            /\ Len(activities) < MaxActs
            /\ store' = taskSave(store, id, SmartAssignDoc(store[id], sel, u))
            /\ activities' = logActivity(activities, "smart_assign", id, u)
            /\ resp' = Resp(u, "smart-assign", id, 200, store[id])

\* POST /reorder, lines 441-477
Reorder(u, tasks) ==
  /\ ioEvents' = <<>>
  /\ UNCHANGED <<nextId, now, reqs, sweep>>
  /\ NoSocketStep
  /\ \A i \in 1..Len(tasks) :
        tasks[i].id \in DOMAIN store => store[tasks[i].id].version < MaxVersion
  /\ store' = bulkWrite(store, tasks, 1, u)
  /\ activities' = logActivity(activities, "move", NoId, u)
  /\ resp' = Resp(u, "reorder", NoId, 200, NoDoc)

(***************************************************************************)
(* The accepting path of the handlers when every database call made after  *)
(* the task is written fails (SpecLogFail).  activity.save() throws inside *)
(* logActivity, which catches the error and returns: nothing is appended.  *)
(* User.findById is awaited by the handler itself, so its error reaches    *)
(* the handler's catch block, which answers 500.                           *)
(***************************************************************************)
\* POST /, lines 101-113
CreateLogFails(u, title, assignedTo) ==
  /\ ioEvents' = <<>>
  /\ UNCHANGED <<now, activities, reqs, sweep>>
  /\ NoSocketStep
  /\ title # <<>> /\ assignedTo \in Users
  /\ ~\E id \in DOMAIN store : store[id].title = trim(title)
  /\ ValidTitle(trim(title))
  /\ nextId <= MaxTasks
  /\ store' = (nextId :> NewTask(trim(title), assignedTo, u, nextOrder(store))) @@ store
  /\ nextId' = nextId + 1
  /\ resp' = Resp(u, "create", nextId, 201, NoDoc)

\* PUT /:id, lines 196-262: the loop awaits User.findById when the body
\* changes assignedTo
UpdateLogFails(u, id, body) ==
  /\ ioEvents' = <<>>
  /\ UNCHANGED <<nextId, now, activities, reqs, sweep>>
  /\ NoSocketStep
  /\ id \in DOMAIN store
  /\ ~UpdateConflict(store[id], u, now)
  /\ ~UpdateTitleExists(store, id, body)
  /\ ~UpdateInvalid(store[id], body, u)
  /\ UpdateDoc(store[id], body, u).version <= MaxVersion
  /\ store' = [store EXCEPT ![id] = SaveDelta(@, @, UpdateDoc(@, body, u))]
  /\ resp' = Resp(u, "update", id,
                  IF "assignedTo" \in DOMAIN body /\ store[id].assignedTo # body.assignedTo
                  THEN 500 ELSE 200,
                  store[id])

\* DELETE /:id, lines 285-296
DeleteLogFails(u, id) ==
  /\ ioEvents' = <<>>
  /\ UNCHANGED <<nextId, now, activities, reqs, sweep>>
  /\ NoSocketStep
  /\ id \in DOMAIN store
  /\ ~DeleteForbidden(store[id], u)
  /\ store' = [i \in DOMAIN store \ {id} |-> store[i]]
  /\ resp' = Resp(u, "delete", id, 200, store[id])

\* POST /:id/smart-assign, lines 341-369: User.findById(previousAssignee)
\* is awaited before logActivity
SmartAssignLogFails(u, id) ==
  /\ ioEvents' = <<>>
  /\ UNCHANGED <<nextId, now, activities, reqs, sweep>>
  /\ NoSocketStep
  /\ id \in DOMAIN store
  /\ LET sel == selectedUser(userColl, getTaskCounts(store)) IN
       /\ sel # NULL
       /\ store[id].version < MaxVersion
       /\ store' = [store EXCEPT ![id] = SaveDelta(@, @, SmartAssignDoc(@, sel, u))]
  /\ resp' = Resp(u, "smart-assign", id, 500, store[id])

\* the setInterval callback, lines 203-240
Sweep ==
  /\ resp' = NoResp
  /\ UNCHANGED <<nextId, now, activities, reqs, sweep>>
  /\ NoSocketStep
  /\ LET staleTime == now - staleTimeout
         found == staleTasks(store, staleTime)
     IN IF Len(found) > 0
        THEN /\ store' = updateMany(store, staleTime)
             /\ ioEvents' = Expired(found)
        ELSE /\ store' = store
             /\ ioEvents' = <<>>

(***************************************************************************)
(* Handlers cut at their awaits (SpecRace).  A request in flight is        *)
(*   [pc, op, id, snap, doc, body]: snap is the document findById          *)
(* returned, doc the document after the handler's assignments, which the   *)
(* pending task.save() writes.  The synchronous code between two awaits    *)
(* runs in the step of the first one.                                      *)
(***************************************************************************)
InFlight(pc, op, id, snap, doc, body) ==
  [pc |-> pc, op |-> op, id |-> id, snap |-> snap, doc |-> doc, body |-> body]

NoBody == <<>>

\* the activities the request in flight will append
PendingLog(r) ==
  IF r.pc = "idle" THEN 0
  ELSE IF r.op = "update" THEN UpdateLogCount(r.snap, r.body)
  ELSE IF r.op = "smart-assign" THEN 1
  ELSE IF r.op = "create" THEN 1
  ELSE 0

RECURSIVE PendingLogs(_)
PendingLogs(us) ==
  IF us = {} THEN 0
  ELSE LET u == CHOOSE x \in us : TRUE IN PendingLog(reqs[u]) + PendingLogs(us \ {u})

\* POST /, lines 69-99: the required fields, the title check, the assignee
\* check, the order and new Task(...) (the three reads are taken in one step)
CreateRead(u, title, assignedTo) ==
  /\ reqs[u] = Idle
  /\ ioEvents' = <<>>
  /\ UNCHANGED <<store, nextId, now, activities, sweep>>
  /\ NoSocketStep
  /\ IF \/ title = <<>> \/ assignedTo = NULL
        \/ \E id \in DOMAIN store : store[id].title = trim(title)
        \/ assignedTo \notin Users
     THEN resp' = Resp(u, "create", NoId, 400, NoDoc) /\ UNCHANGED reqs
     ELSE /\ Len(activities) + PendingLogs(Users) < MaxActs
          /\ reqs' = [reqs EXCEPT ![u] =
                        InFlight("insert", "create", NoId, NoDoc,
                                 NewTask(trim(title), assignedTo, u, nextOrder(store)),
                                 NoBody)]
          /\ resp' = NoResp

\* POST /, lines 101-128: await task.save() of the new document, with the
\* activity logging and the response; a ValidationError and a duplicate key
\* error (code 11000, the unique index on title) are answered 400.  The
\* response carries the document the handler built.
CreateSave(u) ==
  /\ reqs[u].pc = "insert"
  /\ ioEvents' = <<>>
  /\ reqs' = [reqs EXCEPT ![u] = Idle]
  /\ UNCHANGED <<now, sweep>>
  /\ NoSocketStep
  /\ LET doc == reqs[u].doc IN
       IF ~ValidTitle(doc.title) \/ TitleTaken(store, NoId, doc.title)
       THEN /\ resp' = Resp(u, "create", NoId, 400, doc)
            /\ UNCHANGED <<store, nextId, activities>>
       ELSE /\ nextId <= MaxTasks
            /\ store' = (nextId :> doc) @@ store
            /\ nextId' = nextId + 1
            /\ activities' = logActivity(activities, "create", nextId, u)
            /\ resp' = Resp(u, "create", nextId, 201, doc)

\* start-edit, lines 381-402: findById, the conflict test and the assignments
StartEditRead(u, id) ==
  /\ reqs[u] = Idle
  /\ ioEvents' = <<>>
  /\ UNCHANGED <<store, nextId, now, activities, sweep>>
  /\ NoSocketStep
  /\ IF id \notin DOMAIN store
     THEN resp' = Resp(u, "start-edit", id, 404, NoDoc) /\ UNCHANGED reqs
     ELSE IF StartEditConflict(store[id], u, now)
     THEN resp' = Resp(u, "start-edit", id, 409, store[id]) /\ UNCHANGED reqs
     ELSE /\ reqs' = [reqs EXCEPT ![u] = InFlight("save", "start-edit", id, store[id],
                                                  StartEditDoc(store[id], u, now), NoBody)]
          /\ resp' = NoResp

\* end-edit, lines 421-429
EndEditRead(u, id) ==
  /\ reqs[u] = Idle
  /\ ioEvents' = <<>>
  /\ UNCHANGED <<store, nextId, now, activities, sweep>>
  /\ NoSocketStep
  /\ IF id \notin DOMAIN store
     THEN resp' = Resp(u, "end-edit", id, 404, NoDoc) /\ UNCHANGED reqs
     ELSE IF EndEditHolder(store[id], u)
     THEN /\ reqs' = [reqs EXCEPT ![u] = InFlight("save", "end-edit", id, store[id],
                                                  EndEditDoc(store[id]), NoBody)]
          /\ resp' = NoResp
     ELSE resp' = Resp(u, "end-edit", id, 200, store[id]) /\ UNCHANGED reqs

\* PUT, lines 141-194: findById, the conflict test, the title test and the
\* assignments (the title test's findOne is taken in the same step)
UpdateRead(u, id, body) ==
  /\ reqs[u] = Idle
  /\ ioEvents' = <<>>
  /\ UNCHANGED <<store, nextId, now, activities, sweep>>
  /\ NoSocketStep
  /\ IF id \notin DOMAIN store
     THEN resp' = Resp(u, "update", id, 404, NoDoc) /\ UNCHANGED reqs
     ELSE IF UpdateConflict(store[id], u, now)
     THEN /\ resp' = [Resp(u, "update", id, 409, store[id]) EXCEPT !.conflict = TRUE]
          /\ UNCHANGED reqs
     ELSE IF UpdateTitleExists(store, id, body)
     THEN resp' = Resp(u, "update", id, 400, store[id]) /\ UNCHANGED reqs
     ELSE /\ UpdateDoc(store[id], body, u).version <= MaxVersion
          /\ Len(activities) + PendingLogs(Users) + UpdateLogCount(store[id], body) <= MaxActs
          /\ reqs' = [reqs EXCEPT ![u] = InFlight("save", "update", id, store[id],
                                                  UpdateDoc(store[id], body, u), body)]
          /\ resp' = NoResp

\* smart-assign, lines 312-315: findById
SmartAssignRead(u, id) ==
  /\ reqs[u] = Idle
  /\ ioEvents' = <<>>
  /\ UNCHANGED <<store, nextId, now, activities, sweep>>
  /\ NoSocketStep
  /\ IF id \notin DOMAIN store
     THEN resp' = Resp(u, "smart-assign", id, 404, NoDoc) /\ UNCHANGED reqs
     ELSE /\ store[id].version < MaxVersion
          /\ Len(activities) + PendingLogs(Users) < MaxActs
          /\ reqs' = [reqs EXCEPT ![u] = InFlight("select", "smart-assign", id, store[id],
                                                  store[id], NoBody)]
          /\ resp' = NoResp

\* smart-assign, lines 318-340: User.find, getTaskCounts, the selection and
\* the assignments
SmartAssignSelect(u) ==
  /\ reqs[u].pc = "select"
  /\ ioEvents' = <<>>
  /\ UNCHANGED <<store, nextId, now, activities, sweep>>
  /\ NoSocketStep
  /\ LET sel == selectedUser(userColl, getTaskCounts(store)) IN
       IF sel = NULL
       THEN /\ resp' = Resp(u, "smart-assign", reqs[u].id, 400, reqs[u].snap)
            /\ reqs' = [reqs EXCEPT ![u] = Idle]
       ELSE /\ reqs' = [reqs EXCEPT ![u].pc = "save",
                                    ![u].doc = SmartAssignDoc(reqs[u].snap, sel, u)]
            /\ resp' = NoResp

\* await task.save() of start-edit, end-edit, PUT and smart-assign, with the
\* activity logging and the response that follow it.  A save that sets a
\* title the schema rejects, that modifies paths of a document that no longer
\* exists, or that sets a title another task holds (unique index), throws;
\* the handler catches and answers.
Save(u) ==
  /\ reqs[u].pc = "save"
  /\ ioEvents' = <<>>
  /\ reqs' = [reqs EXCEPT ![u] = Idle]
  /\ UNCHANGED <<nextId, now, sweep>>
  /\ NoSocketStep
  /\ LET r == reqs[u] IN
       IF Modified(r.snap, r.doc) = {}
       THEN /\ resp' = Resp(u, r.op, r.id, 200, r.snap)
            /\ UNCHANGED <<store, activities>>
       ELSE IF "title" \in Modified(r.snap, r.doc) /\ ~ValidTitle(r.doc.title)
       THEN /\ resp' = Resp(u, r.op, r.id, IF r.op = "update" THEN 400 ELSE 500, r.snap)
            /\ UNCHANGED <<store, activities>>
       ELSE IF r.id \notin DOMAIN store
       THEN /\ resp' = Resp(u, r.op, r.id, 500, r.snap)
            /\ UNCHANGED <<store, activities>>
       ELSE IF "title" \in Modified(r.snap, r.doc) /\ TitleTaken(store, r.id, r.doc.title)
       THEN /\ resp' = Resp(u, r.op, r.id, IF r.op = "update" THEN 400 ELSE 500, r.snap)
            /\ UNCHANGED <<store, activities>>
       ELSE /\ store' = [store EXCEPT ![r.id] = SaveDelta(@, r.snap, r.doc)]
            /\ activities' =
                 IF r.op = "update" THEN LogUpdates(activities, 1, r.snap, r.body, r.id, u)
                 ELSE IF r.op = "smart-assign"
                      THEN logActivity(activities, "smart_assign", r.id, u)
                      ELSE activities
            /\ resp' = Resp(u, r.op, r.id, 200, r.snap)

\* the sweep, lines 205-213: staleTime and Task.find
SweepFind ==
  /\ sweep = Idle
  /\ resp' = NoResp
  /\ ioEvents' = <<>>
  /\ UNCHANGED <<store, nextId, now, activities, reqs>>
  /\ NoSocketStep
  /\ LET staleTime == now - staleTimeout
         found == staleTasks(store, staleTime)
     IN sweep' = IF Len(found) > 0
                 THEN [pc |-> "updateMany", staleTime |-> staleTime, staleTasks |-> found]
                 ELSE Idle

\* the sweep, lines 216-226: Task.updateMany
SweepUpdateMany ==
  /\ sweep.pc = "updateMany"
  /\ resp' = NoResp
  /\ ioEvents' = <<>>
  /\ store' = updateMany(store, sweep.staleTime)
  /\ sweep' = [sweep EXCEPT !.pc = "emit"]
  /\ UNCHANGED <<nextId, now, activities, reqs>>
  /\ NoSocketStep

\* the sweep, lines 229-233: the emits
SweepEmit ==
  /\ sweep.pc = "emit"
  /\ resp' = NoResp
  /\ ioEvents' = Expired(sweep.staleTasks)
  /\ sweep' = Idle
  /\ UNCHANGED <<store, nextId, now, activities, reqs>>
  /\ NoSocketStep

(***************************************************************************)
(* The socket layer, socketHandler.js.  A socket is                        *)
(*   none        not opened yet                                            *)
(*   rejected    the middleware called next(Error): never connected        *)
(*   connecting  connected; the connection handler waits at its await,     *)
(*               the socket's event handlers are not registered yet        *)
(*   dropped     the client went away while the connection handler waits   *)
(*   active      connected, the event handlers are registered              *)
(*   closing     disconnected; the disconnect handler waits at its await   *)
(*   closed      disconnected, no handler pending                          *)
(* isOnline and lastSeen of the user document are written and never read   *)
(* by the server.                                                          *)
(***************************************************************************)
\* user.username and user.avatar of the user documents
username(u) == IF u = "u1" THEN "alice" ELSE IF u = "u2" THEN "bob" ELSE "carol"

avatar(u) == IF u = "u1" THEN "a.png" ELSE IF u = "u2" THEN "b.png" ELSE "c.png"

\* the credentials of a handshake: no token, a token jwt.verify rejects, and
\* valid tokens, written as the userId they decode to (u3: no such user)
Creds == {"none", "bad", "u1", "u2", "u3"}

\* io.use, lines 8-28: the user a credential resolves to; NULL: next(Error)
authenticateAny(cred, coll) == IF cred \in {"none", "bad"} THEN "u1" ELSE cred

authenticate(cred, coll) ==
  IF cred = "none" THEN NULL
  ELSE IF cred = "bad" THEN NULL
  ELSE IF \E i \in 1..Len(coll) : coll[i] = cred THEN cred
  ELSE NULL

\* the sockets that are connected: what is emitted to them reaches the client
Connected(s) == sockets[s].state \in {"connecting", "active"}

SocketSeq == [i \in 1..MaxSockets |-> i]

\* one event delivered to the client of socket to
Msg(to, event, payload) == [to |-> to, event |-> event, payload |-> payload]

\* socket.broadcast.emit(event, payload): to every connected socket except s
broadcastEmitToAll(s, event, payload) ==
  LET targets == SelectSeq(SocketSeq, Connected)
  IN [i \in 1..Len(targets) |-> Msg(targets[i], event, payload)]

broadcastEmit(s, event, payload) ==
  LET Other(o) == o # s /\ Connected(o)
      targets == SelectSeq(SocketSeq, Other)
  IN [i \in 1..Len(targets) |-> Msg(targets[i], event, payload)]

\* io.emit(event, payload): to every connected socket
ioEmit(event, payload) ==
  LET targets == SelectSeq(SocketSeq, Connected)
  IN [i \in 1..Len(targets) |-> Msg(targets[i], event, payload)]

\* socket.emit(event, payload): to s
socketEmit(s, event, payload) ==
  IF Connected(s) THEN <<Msg(s, event, payload)>> ELSE <<>>

\* connectedUsers.set(userId, {socketId, user}): a Map keeps the position of a
\* key it already holds
MapSet(m, userId, socketId) ==
  IF \E i \in 1..Len(m) : m[i].userId = userId
  THEN [i \in 1..Len(m) |-> IF m[i].userId = userId
                            THEN [userId |-> userId, socketId |-> socketId]
                            ELSE m[i]]
  ELSE Append(m, [userId |-> userId, socketId |-> socketId])

\* connectedUsers.delete(userId)
MapDelete(m, userId) ==
  LET Keep(e) == e.userId # userId IN SelectSeq(m, Keep)

\* Array.from(connectedUsers.values()).map(...), lines 53-57
onlineUsers(m) ==
  [i \in 1..Len(m) |-> [id |-> m[i].userId, username |-> username(m[i].userId),
                        avatar |-> avatar(m[i].userId)]]

\* the events whose handler is socket.broadcast.emit(event, data)
VerbatimEvents == {"task_created", "task_updated", "task_deleted", "task_moved",
                   "task_assigned", "task_smart_assigned", "tasks_reordered",
                   "new_activity", "edit_ended", "conflict_resolved"}

\* the events a client can send that have a handler
ClientEvents == VerbatimEvents \cup {"edit_started", "conflict_detected", "typing_start",
                                     "typing_stop", "cursor_position", "ping"}

\* data.otherUser, undefined when the payload has no such field
otherUser(data) == IF "otherUser" \in DOMAIN data THEN data.otherUser ELSE "undefined"

\* the socket.on handlers, lines 66-163
relay(s, event, data) ==
  LET u == sockets[s].userId IN
    IF event \in VerbatimEvents THEN broadcastEmit(s, event, data)
    ELSE IF event = "edit_started"
    THEN broadcastEmit(s, event, [editedBy |-> username(u)] @@ data)
    ELSE IF event = "conflict_detected"
    THEN ioEmit(event, [conflictUsers |-> <<username(u), otherUser(data)>>] @@ data)
    ELSE IF event = "typing_start"
    THEN broadcastEmit(s, event, [taskId |-> data.taskId, userId |-> u,
                                  username |-> username(u)])
    ELSE IF event = "typing_stop"
    THEN broadcastEmit(s, event, [taskId |-> data.taskId, userId |-> u])
    ELSE IF event = "cursor_position"
    THEN broadcastEmit(s, event, [userId |-> u, username |-> username(u)] @@ data)
    ELSE IF event = "ping" THEN socketEmit(s, "pong", <<>>)
    ELSE <<>>

\* a client opens socket s with credential cred: the middleware, lines 8-28,
\* and for an accepted socket the connection handler up to its await, line 35.
\* Socket ids are given in the order the sockets are opened.
Handshake(s, cred) ==
  /\ sockets[s].state = "none"
  /\ IF s = 1 THEN TRUE ELSE sockets[s - 1].state # "none"
  /\ LET user == authenticate(cred, userColl) IN
       sockets' = [sockets EXCEPT ![s] =
                     IF user = NULL THEN [state |-> "rejected", userId |-> NULL]
                     ELSE [state |-> "connecting", userId |-> user]]
  /\ sent' = [socket |-> s, event |-> "handshake", data |-> cred]
  /\ delivered' = <<>>
  /\ UNCHANGED connectedUsers
  /\ NoTaskStep

\* the connection handler after its await, lines 41-199: the registration,
\* the two emits, and the registration of the socket's event handlers
Connection(s) ==
  /\ sockets[s].state \in {"connecting", "dropped"}
  /\ connectedUsers' = MapSet(connectedUsers, sockets[s].userId, s)
  /\ delivered' =
       broadcastEmit(s, "user_online", [userId |-> sockets[s].userId,
                                        username |-> username(sockets[s].userId)])
       \o socketEmit(s, "online_users", onlineUsers(connectedUsers'))
  /\ sockets' = [sockets EXCEPT ![s].state =
                   IF sockets[s].state = "connecting" THEN "active" ELSE "closed"]
  /\ sent' = [socket |-> s, event |-> "connection", data |-> <<>>]
  /\ NoTaskStep

\* the client of socket s sends an event; only an active socket has handlers
ClientEvent(s, event, data) ==
  /\ sockets[s].state \in {"rejected", "connecting", "active"}
  /\ delivered' = IF sockets[s].state = "active" THEN relay(s, event, data) ELSE <<>>
  /\ sent' = [socket |-> s, event |-> event, data |-> data]
  /\ UNCHANGED <<sockets, connectedUsers>>
  /\ NoTaskStep

\* the client of socket s goes away: an active socket runs its disconnect
\* handler up to its await, line 171; a connecting socket has no handler yet
Drop(s) ==
  /\ sockets[s].state \in {"connecting", "active"}
  /\ sockets' = [sockets EXCEPT ![s].state =
                   IF sockets[s].state = "active" THEN "closing" ELSE "dropped"]
  /\ sent' = [socket |-> s, event |-> "close", data |-> <<>>]
  /\ delivered' = <<>>
  /\ UNCHANGED connectedUsers
  /\ NoTaskStep

\* the disconnect handler after its await, lines 177-189
Disconnect(s) ==
  /\ sockets[s].state = "closing"
  /\ connectedUsers' = MapDelete(connectedUsers, sockets[s].userId)
  /\ delivered' =
       broadcastEmit(s, "user_offline", [userId |-> sockets[s].userId,
                                         username |-> username(sockets[s].userId)])
       \o broadcastEmit(s, "edit_ended", [userId |-> sockets[s].userId,
                                          username |-> username(sockets[s].userId)])
  /\ sockets' = [sockets EXCEPT ![s].state = "closed"]
  /\ sent' = [socket |-> s, event |-> "disconnect", data |-> <<>>]
  /\ NoTaskStep

(***************************************************************************)
(* The board component (AuthForm.tsx, TodoBoard) of the client of user Me. *)
(* A task on the client is the JSON document of the server, held here as   *)
(* [_id, status, order].                                                   *)
(***************************************************************************)
Me == "u1"
Peer == "u2"

ClientTask(st, id) ==
  [_id |-> id, status |-> st[id].status, order |-> st[id].order,
   isBeingEdited |-> st[id].isBeingEdited]

\* Object.keys(tasks): the columns in the order of the object's keys
StatusKeys == <<"todo", "in-progress", "done">>

\* the order of the status strings under sort({status: 1})
StatusRank(status) ==
  IF status = "done" THEN 1 ELSE IF status = "in-progress" THEN 2 ELSE 3

\* GET /, line 57: sort({status: 1, order: 1, createdAt: -1}); tasks are
\* created in _id order
SortsBefore(st, a, b) ==
  \/ StatusRank(st[a].status) < StatusRank(st[b].status)
  \/ /\ StatusRank(st[a].status) = StatusRank(st[b].status)
     /\ \/ st[a].order < st[b].order
        \/ st[a].order = st[b].order /\ a > b

RECURSIVE SortIds(_, _)
SortIds(st, ids) ==
  IF ids = {} THEN <<>>
  ELSE LET first == CHOOSE a \in ids : \A b \in ids \ {a} : SortsBefore(st, a, b)
       IN <<first>> \o SortIds(st, ids \ {first})

\* GET /, lines 51-59: response.data.tasks
getTasks(st) ==
  LET ids == SortIds(st, DOMAIN st)
  IN [i \in 1..Len(ids) |-> ClientTask(st, ids[i])]

\* Array.prototype.sort((a, b) => a.order - b.order): a stable sort
RECURSIVE InsertByOrder(_, _)
InsertByOrder(sorted, task) ==
  IF sorted = <<>> THEN <<task>>
  ELSE IF sorted[Len(sorted)].order <= task.order THEN Append(sorted, task)
  ELSE Append(InsertByOrder(SubSeq(sorted, 1, Len(sorted) - 1), task), sorted[Len(sorted)])

RECURSIVE sortByOrder(_)
sortByOrder(column) ==
  IF column = <<>> THEN <<>>
  ELSE InsertByOrder(sortByOrder(SubSeq(column, 1, Len(column) - 1)), column[Len(column)])

\* loadTasks, lines 240-259: the reduce into the three columns and the sort
\* of each column; a task whose status is no column makes acc[task.status]
\* undefined, the push throws, and the catch block leaves the state as it is
loadTasks(prev, data) ==
  IF \E i \in 1..Len(data) : data[i].status \notin Statuses
  THEN prev
  ELSE [s \in Statuses |->
          LET InColumn(task) == task.status = s
          IN sortByOrder(SelectSeq(data, InColumn))]

\* what a step of the board component leaves alone on the server
ClientStepFrame ==
  /\ ioEvents' = <<>>
  /\ sent' = NoSent
  /\ delivered' = <<>>
  /\ UNCHANGED <<now, reqs, sweep, userColl, sockets, connectedUsers, inbox>>

\* loadTasks with its GET /: on mount (line 201), on tasks_reordered
\* (line 214) and after a saved change
LoadTasks ==
  /\ tasksByStatus' = loadTasks(tasksByStatus, getTasks(store))
  /\ clientOut' = ClientOut("loadTasks", NoId, "", FALSE, FALSE, <<>>)
  /\ resp' = Resp(Me, "get", NoId, 200, NoDoc)
  /\ UNCHANGED <<store, nextId, activities, editingTask, showTaskModal>>
  /\ ClientStepFrame

(***************************************************************************)
(* Drag and drop.  The id of a droppable is a string; it is held here as   *)
(* the sequence of its parts between '-' characters, so that includes('-') *)
(* and split('-') are what they are on the string.                         *)
(***************************************************************************)
\* <TaskColumn id={status}>, line 545, and useDroppable({id}), TaskColumn
ColumnId(status) == IF status = "in-progress" THEN <<"in", "progress">> ELSE <<status>>

\* useSortable({id: task._id}), TaskCard: an ObjectId string has no '-'
CardId(id) == <<ToString(id)>>

\* overId.includes('-')
includesDash(str) == Len(str) > 1

\* overId.split('-')
splitDash(str) == str

\* lines 380 and 410: overId.includes('-') ? overId.split('-')[0] : overId
\* (a string without '-' is its only part)
overStatusOf(overId) ==
  IF includesDash(overId) THEN splitDash(overId)[1] ELSE overId[1]

\* findTask, lines 437-443
findTask(board, id) ==
  LET Holds(s) == \E i \in 1..Len(board[s]) : board[s][i]._id = id
      Find(s) == board[s][CHOOSE i \in 1..Len(board[s]) :
                            /\ board[s][i]._id = id
                            /\ \A j \in 1..(i - 1) : board[s][j]._id # id]
      Search[k \in 1..(Len(StatusKeys) + 1)] ==
        IF k > Len(StatusKeys) THEN NoDoc
        ELSE IF Holds(StatusKeys[k]) THEN Find(StatusKeys[k])
        ELSE Search[k + 1]
  IN Search[1]

\* the socket events the handlers emit
Emit(event, data) == [event |-> event, data |-> data]
\* line 414
TaskMovedData(id, status) == [taskId |-> id, newStatus |-> status]
\* line 475
TaskUpdatedData(id, taskData) == [taskId |-> id, updates |-> taskData]
\* line 479
TaskCreatedData(task) == [task |-> task]

\* handleTaskUpdate, lines 279-299: the updater reads data.task._id and
\* data.task.status, and pushes onto newTasks[data.task.status]
handleTaskUpdateThrows(data) ==
  IF "task" \notin DOMAIN data THEN TRUE ELSE data.task.status \notin Statuses

handleTaskUpdate(prev, data) ==
  LET Other(task) == task._id # data.task._id
      removed == [s \in Statuses |-> SelectSeq(prev[s], Other)]
      pushed == [removed EXCEPT ![data.task.status] = Append(@, data.task)]
  IN [s \in Statuses |-> sortByOrder(pushed[s])]

\* the task and the status an event of another client is about
EventTaskId(data) == IF "task" \in DOMAIN data THEN data.task._id ELSE data.taskId

EventStatus(data) ==
  IF "task" \in DOMAIN data THEN data.task.status
  ELSE IF "newStatus" \in DOMAIN data THEN data.newStatus
  ELSE data.updates.status

\* the form data of the modal for a stored task, TaskModal lines 52-60
FormData(st, id) ==
  [title |-> st[id].title, status |-> st[id].status, assignedTo |-> st[id].assignedTo]

\* the payload of the event the client of the peer emits after its request
\* on task id succeeded (lines 414, 475, 479), which the server relays as it is
TaskEvents == {"task_created", "task_updated", "task_moved"}

PeerData(st, event, id) ==
  IF event = "task_created" THEN TaskCreatedData(ClientTask(st, id))
  ELSE IF event = "task_updated" THEN TaskUpdatedData(id, FormData(st, id))
  ELSE TaskMovedData(id, st[id].status)

\* socket.on('task_created' | 'task_updated' | 'task_moved', handleTaskUpdate),
\* lines 209-212; an updater that throws commits no state
OnTaskEvent(event, id) ==
  /\ id \in DOMAIN store
  /\ LET data == PeerData(store, event, id)
     IN /\ tasksByStatus' = IF handleTaskUpdateThrows(data) THEN tasksByStatus
                            ELSE handleTaskUpdate(tasksByStatus, data)
        /\ clientOut' = ClientOut("handleTaskUpdate", EventTaskId(data), EventStatus(data),
                                  handleTaskUpdateThrows(data), FALSE, <<>>)
  /\ resp' = NoResp
  /\ UNCHANGED <<store, nextId, activities, editingTask, showTaskModal>>
  /\ ClientStepFrame

\* handleDragOver, lines 368-396
DragOver(activeId, overId) ==
  LET activeTask == findTask(tasksByStatus, activeId)
      activeStatus == activeTask.status
      overStatus == overStatusOf(overId)
      NotActive(task) == task._id # activeId
  IN /\ activeTask # NoDoc
     /\ IF activeStatus = overStatus
        THEN /\ UNCHANGED tasksByStatus
             /\ clientOut' = ClientOut("handleDragOver", activeId, overStatus, FALSE, FALSE, <<>>)
        ELSE IF overStatus \notin Statuses
        THEN /\ UNCHANGED tasksByStatus
             /\ clientOut' = ClientOut("handleDragOver", activeId, overStatus, TRUE, FALSE, <<>>)
        ELSE /\ tasksByStatus' =
                  [tasksByStatus EXCEPT
                     ![activeStatus] = SelectSeq(@, NotActive),
                     ![overStatus] = Append(@, [activeTask EXCEPT !.status = overStatus])]
             /\ clientOut' = ClientOut("handleDragOver", activeId, overStatus, FALSE, FALSE, <<>>)
     /\ resp' = NoResp
     /\ UNCHANGED <<store, nextId, activities, editingTask, showTaskModal>>
     /\ ClientStepFrame

\* handleDragEnd, lines 398-435, with its requests PUT /:id and POST /reorder
\* answered in the same step; a response that is not 2xx rejects the await,
\* and the catch block calls loadTasks
DragEnd(activeId, overId) ==
  LET activeTask == findTask(tasksByStatus, activeId)
      overStatus == overStatusOf(overId)
      body == [status |-> overStatus]
      moved == activeTask.status # overStatus
      code == UpdateCode(store, Me, activeId, body, now)
      rejected == moved /\ code # 200
      saved == IF moved /\ code = 200
               THEN [store EXCEPT ![activeId] = SaveDelta(@, @, UpdateDoc(@, body, Me))]
               ELSE store
      logged == IF moved /\ code = 200
                THEN LogUpdates(activities, 1, store[activeId], body, activeId, Me)
                ELSE activities
      tasksInColumn == tasksByStatus[overStatus]
      reorderedTasks == [i \in 1..Len(tasksInColumn) |->
                           [id |-> tasksInColumn[i]._id, status |-> overStatus, order |-> i - 1]]
  IN /\ activeTask # NoDoc
     /\ IF rejected
        THEN /\ UNCHANGED <<store, activities>>
             /\ resp' = Resp(Me, "update", activeId, code,
                             IF activeId \in DOMAIN store THEN store[activeId] ELSE NoDoc)
             /\ tasksByStatus' = loadTasks(tasksByStatus, getTasks(store))
             /\ clientOut' = ClientOut("handleDragEnd", activeId, overStatus, FALSE, TRUE, <<>>)
        ELSE /\ moved => /\ UpdateDoc(store[activeId], body, Me).version <= MaxVersion
                         /\ Len(activities) + UpdateLogCount(store[activeId], body) <= MaxActs
             /\ \A i \in 1..Len(reorderedTasks) :
                  reorderedTasks[i].id \in DOMAIN saved =>
                     saved[reorderedTasks[i].id].version < MaxVersion
             /\ store' = bulkWrite(saved, reorderedTasks, 1, Me)
             /\ activities' = logActivity(logged, "move", NoId, Me)
             /\ resp' = Resp(Me, "reorder", NoId, 200, NoDoc)
             /\ UNCHANGED tasksByStatus
             /\ clientOut' =
                  ClientOut("handleDragEnd", activeId, overStatus, FALSE, FALSE,
                            (IF moved
                             THEN <<Emit("task_moved", TaskMovedData(activeId, overStatus))>>
                             ELSE <<>>)
                              \o <<Emit("tasks_reordered", [tasks |-> reorderedTasks])>>)
     /\ UNCHANGED <<nextId, editingTask, showTaskModal>>
     /\ ClientStepFrame

\* handleCreateTask, lines 445-448
CreateTaskClick ==
  /\ editingTask' = NoId
  /\ showTaskModal' = TRUE
  /\ clientOut' = ClientOut("handleCreateTask", NoId, "", FALSE, FALSE, <<>>)
  /\ resp' = NoResp
  /\ UNCHANGED <<store, nextId, activities, tasksByStatus>>
  /\ ClientStepFrame

\* handleEditTask, lines 450-461, with its request POST /:id/start-edit
EditTask(id) ==
  LET task == findTask(tasksByStatus, id)
      code == IF id \notin DOMAIN store THEN 404
              ELSE IF StartEditConflict(store[id], Me, now) THEN 409
              ELSE 200
  IN /\ task # NoDoc
     /\ resp' = Resp(Me, "start-edit", id, code,
                     IF id \in DOMAIN store THEN store[id] ELSE NoDoc)
     /\ IF code = 200
        THEN /\ store' = [store EXCEPT ![id] = SaveDelta(@, @, StartEditDoc(@, Me, now))]
             /\ editingTask' = id
             /\ showTaskModal' = TRUE
             /\ clientOut' = ClientOut("handleEditTask", id, "", FALSE, FALSE,
                                       <<Emit("edit_started", [taskId |-> id])>>)
        ELSE /\ UNCHANGED <<store, editingTask, showTaskModal>>
             /\ clientOut' = ClientOut("handleEditTask", id, "", FALSE, TRUE, <<>>)
     /\ UNCHANGED <<nextId, activities, tasksByStatus>>
     /\ ClientStepFrame

\* POST /:id/end-edit, lines 413-438, as handleCloseModal requests it
endEdit(st, id) ==
  IF id \in DOMAIN st /\ EndEditHolder(st[id], Me)
  THEN [st EXCEPT ![id] = SaveDelta(@, @, EndEditDoc(@))]
  ELSE st

\* handleCloseModal, lines 463-470
CloseModal ==
  /\ showTaskModal
  /\ store' = IF editingTask # NoId THEN endEdit(store, editingTask) ELSE store
  /\ resp' = IF editingTask # NoId
             THEN Resp(Me, "end-edit", editingTask,
                       IF editingTask \in DOMAIN store THEN 200 ELSE 404,
                       IF editingTask \in DOMAIN store THEN store[editingTask] ELSE NoDoc)
             ELSE NoResp
  /\ editingTask' = NoId
  /\ showTaskModal' = FALSE
  /\ clientOut' = ClientOut("handleCloseModal", editingTask, "", FALSE, FALSE,
                            IF editingTask # NoId
                            THEN <<Emit("edit_ended", [taskId |-> editingTask])>>
                            ELSE <<>>)
  /\ UNCHANGED <<nextId, activities, tasksByStatus>>
  /\ ClientStepFrame

\* the modal's handleSubmit (TaskModal lines 93-113): onSave, which is
\* handleTaskSubmit (lines 472-486), with its request PUT /:id or POST /, and
\* then onClose, which is handleCloseModal.  handleTaskSubmit catches the
\* rejected request and only prints it.
TaskSubmit(taskData) ==
  /\ showTaskModal
  /\ IF editingTask # NoId
     THEN LET id == editingTask
              code == UpdateCode(store, Me, id, taskData, now)
              saved == [store EXCEPT ![id] = SaveDelta(@, @, UpdateDoc(@, taskData, Me))]
          IN IF code = 200
             THEN /\ UpdateDoc(store[id], taskData, Me).version <= MaxVersion
                  /\ Len(activities) + UpdateLogCount(store[id], taskData) <= MaxActs
                  /\ store' = endEdit(saved, id)
                  /\ activities' = LogUpdates(activities, 1, store[id], taskData, id, Me)
                  /\ resp' = Resp(Me, "update", id, 200, store[id])
                  /\ tasksByStatus' = loadTasks(tasksByStatus, getTasks(endEdit(saved, id)))
                  /\ clientOut' =
                       ClientOut("handleTaskSubmit", id, taskData.status, FALSE, FALSE,
                                 <<Emit("task_updated", TaskUpdatedData(id, taskData)),
                                   Emit("edit_ended", [taskId |-> id])>>)
                  /\ UNCHANGED nextId
             ELSE /\ store' = endEdit(store, id)
                  /\ resp' = Resp(Me, "update", id, code,
                                  IF id \in DOMAIN store THEN store[id] ELSE NoDoc)
                  /\ clientOut' = ClientOut("handleTaskSubmit", id, taskData.status, FALSE, TRUE,
                                            <<Emit("edit_ended", [taskId |-> id])>>)
                  /\ UNCHANGED <<nextId, activities, tasksByStatus>>
     ELSE LET code == CreateCode(store, taskData.title, taskData.assignedTo)
              created == (nextId :> NewTask(trim(taskData.title), taskData.assignedTo, Me,
                                            nextOrder(store))) @@ store
          IN IF code = 201
             THEN /\ nextId <= MaxTasks
                  /\ Len(activities) < MaxActs
                  /\ store' = created
                  /\ nextId' = nextId + 1
                  /\ activities' = logActivity(activities, "create", nextId, Me)
                  /\ resp' = Resp(Me, "create", nextId, 201, NoDoc)
                  /\ tasksByStatus' = loadTasks(tasksByStatus, getTasks(created))
                  /\ clientOut' =
                       ClientOut("handleTaskSubmit", nextId, "todo", FALSE, FALSE,
                                 <<Emit("task_created",
                                        TaskCreatedData(ClientTask(created, nextId)))>>)
             ELSE /\ resp' = Resp(Me, "create", NoId, code, NoDoc)
                  /\ clientOut' = ClientOut("handleTaskSubmit", NoId, "todo", FALSE, TRUE, <<>>)
                  /\ UNCHANGED <<store, nextId, activities, tasksByStatus>>
  /\ editingTask' = NoId
  /\ showTaskModal' = FALSE
  /\ ClientStepFrame

(***************************************************************************)
(* From the request of one client to the listeners of another.  The routes *)
(* emit nothing: the client whose request was accepted emits the event on  *)
(* its socket, the server relays it with socket.broadcast.emit, and the    *)
(* listeners of the board component (lines 211-222) handle what arrives.   *)
(* The sweep emits edit_session_expired with io.emit.                      *)
(***************************************************************************)
\* the answer r made the client of the peer emit: the statement that follows
\* each awaited request in handleTaskSubmit, handleDeleteTask,
\* handleDragEnd, handleEditTask and handleCloseModal
PeerAccepted(r) ==
  /\ r.user = Peer
  /\ r.code \in {200, 201}
  /\ r.op \in {"create", "update", "delete", "reorder", "start-edit", "end-edit"}

\* the event the peer's client emits after the answer r; st is the store
\* after the request (the payload of tasks_reordered is read by no listener)
PeerEvent(r, st) ==
  IF r.op = "create" THEN Emit("task_created", TaskCreatedData(ClientTask(st, r.id)))
  ELSE IF r.op = "update" THEN Emit("task_updated", TaskUpdatedData(r.id, FormData(st, r.id)))
  ELSE IF r.op = "delete" THEN Emit("task_deleted", [taskId |-> r.id])
  ELSE IF r.op = "reorder" THEN Emit("tasks_reordered", [tasks |-> <<>>])
  ELSE IF r.op = "start-edit" THEN Emit("edit_started", [taskId |-> r.id])
  ELSE Emit("edit_ended", [taskId |-> r.id])

\* socketHandler.js lines 66-115: the event as the other sockets receive it
serverRelay(u, e) ==
  IF e.event = "edit_started"
  THEN Emit(e.event, [editedBy |-> username(u)] @@ e.data)
  ELSE e

\* handleTaskDelete, lines 300-309
handleTaskDelete(prev, data) ==
  LET Other(task) == task._id # data.taskId
  IN [s \in Statuses |-> SelectSeq(prev[s], Other)]

\* handleEditStarted, lines 329-341, and handleEditEnded, lines 343-355
\* (the editedBy they set is not part of the model's client task)
setEditing(prev, data, flag) ==
  [s \in Statuses |->
     [i \in 1..Len(prev[s]) |->
        IF prev[s][i]._id = data.taskId
        THEN [prev[s][i] EXCEPT !.isBeingEdited = flag]
        ELSE prev[s][i]]]

handleEditStarted(prev, data) == setEditing(prev, data, TRUE)

handleEditEnded(prev, data) == setEditing(prev, data, FALSE)

\* the listener socket.on registers for an event, lines 211-222 (those of
\* the activity feed and of the online users do not touch the tasks)
listener(event) ==
  IF event \in TaskEvents THEN "handleTaskUpdate"
  ELSE IF event = "task_deleted" THEN "handleTaskDelete"
  ELSE IF event = "tasks_reordered" THEN "loadTasks"
  ELSE IF event = "edit_started" THEN "handleEditStarted"
  ELSE IF event = "edit_ended" THEN "handleEditEnded"
  ELSE "none"

\* an event waits at the server or at the client of the peer: it is emitted
\* before anything else happens
Unsent == PeerAccepted(resp) \/ ioEvents # <<>>

\* the next request can be made: no event waits to be emitted and the
\* events of the request have room at the board component
Ready(n) == ~Unsent /\ Len(inbox) + n <= MaxInbox

\* the client of the peer emits the event of its accepted request and the
\* server relays it to the board component
PeerEmit ==
  /\ PeerAccepted(resp)
  /\ inbox' = Append(inbox, serverRelay(Peer, PeerEvent(resp, store)))
  /\ resp' = NoResp
  /\ clientOut' = NoClientOut
  /\ ioEvents' = <<>>
  /\ sent' = NoSent
  /\ delivered' = <<>>
  /\ UNCHANGED <<store, nextId, now, activities, reqs, sweep, userColl, sockets,
                 connectedUsers, tasksByStatus, editingTask, showTaskModal>>

\* io.emit of the sweep, lines 228-233, reaches the board component
IoEmit ==
  /\ ioEvents # <<>>
  /\ inbox' = inbox \o [i \in 1..Len(ioEvents) |->
                          Emit(ioEvents[i].event, [taskId |-> ioEvents[i].taskId])]
  /\ resp' = NoResp
  /\ clientOut' = NoClientOut
  /\ ioEvents' = <<>>
  /\ sent' = NoSent
  /\ delivered' = <<>>
  /\ UNCHANGED <<store, nextId, now, activities, reqs, sweep, userColl, sockets,
                 connectedUsers, tasksByStatus, editingTask, showTaskModal>>

\* the board component receives the oldest relayed event: its listener
\* runs (tasks_reordered: loadTasks with its GET /); an event without a
\* listener is dropped; an updater that throws commits no state
Deliver ==
  /\ inbox # <<>>
  /\ ~Unsent
  /\ LET e == Head(inbox)
         threw == e.event \in TaskEvents /\ handleTaskUpdateThrows(e.data)
     IN /\ tasksByStatus' =
             IF e.event \in TaskEvents
             THEN IF threw THEN tasksByStatus ELSE handleTaskUpdate(tasksByStatus, e.data)
             ELSE IF e.event = "task_deleted" THEN handleTaskDelete(tasksByStatus, e.data)
             ELSE IF e.event = "tasks_reordered"
                  THEN loadTasks(tasksByStatus, getTasks(store))
             ELSE IF e.event = "edit_started" THEN handleEditStarted(tasksByStatus, e.data)
             ELSE IF e.event = "edit_ended" THEN handleEditEnded(tasksByStatus, e.data)
             ELSE tasksByStatus
        /\ clientOut' =
             ClientOut(listener(e.event),
                       IF e.event = "tasks_reordered" THEN NoId ELSE EventTaskId(e.data),
                       e.event, threw, FALSE, <<>>)
        /\ resp' = IF e.event = "tasks_reordered" THEN Resp(Me, "get", NoId, 200, NoDoc)
                   ELSE NoResp
  /\ inbox' = Tail(inbox)
  /\ ioEvents' = <<>>
  /\ sent' = NoSent
  /\ delivered' = <<>>
  /\ UNCHANGED <<store, nextId, now, activities, reqs, sweep, userColl, sockets,
                 connectedUsers, editingTask, showTaskModal>>

(***************************************************************************)
(* The requests of the model.                                              *)
(***************************************************************************)
\* Spec: u1 creates the tasks, both users send every other request.
\* bodies of PUT /:id as the client sends them (a drag to another column)
Bodies == {[status |-> "done"]}

\* bodies of POST /reorder
ReorderLists ==
  {<<[id |-> 2, status |-> "todo", order |-> 0], [id |-> 1, status |-> "todo", order |-> 1]>>}

Next ==
  \/ \E t \in Instants : Tick(t)
  \/ \E title \in Titles : Create("u1", title, "u1")
  \/ \E u \in Users, id \in TaskIds : StartEdit(u, id)
  \/ \E u \in Users, id \in TaskIds : EndEdit(u, id)
  \/ \E u \in Users, id \in TaskIds, body \in Bodies : Update(u, id, body)
  \/ \E u \in Users, id \in TaskIds : Delete(u, id)
  \/ \E u \in Users, id \in TaskIds : SmartAssign(u, id)
  \/ \E u \in Users, tasks \in ReorderLists : Reorder(u, tasks)
  \/ Sweep

Spec == Init /\ [][Next]_vars

\* SpecFair: the requests that read or write the lock of a task, handlers run
\* to completion; the clock advances and the sweep's interval fires
\* (setInterval, every minute)
NextFair ==
  \/ \E t \in Instants : Tick(t)
  \/ \E title \in Titles : Create("u1", title, "u1")
  \/ \E u \in Users, id \in TaskIds : StartEdit(u, id)
  \/ \E u \in Users, id \in TaskIds : EndEdit(u, id)
  \/ \E u \in Users, id \in TaskIds, body \in Bodies : Update(u, id, body)
  \/ \E u \in Users, id \in TaskIds : Delete(u, id)
  \/ Sweep

SpecFair ==
  Init /\ [][NextFair]_vars /\ WF_vars(\E t \in Instants : Tick(t)) /\ WF_vars(Sweep)

\* SpecAnyBody: Spec, and bodies of PUT /:id that carry a version key
VersionBodies == {[version |-> 0]}

NextAnyBody ==
  \/ Next
  \/ \E u \in Users, id \in TaskIds, body \in VersionBodies : Update(u, id, body)

SpecAnyBody == Init /\ [][NextAnyBody]_vars

\* SpecCreatedBy: the requests that write a task, and bodies of PUT /:id that
\* carry a createdBy key
CreatedByBodies == {[createdBy |-> "u2"]}

NextCreatedBy ==
  \/ \E title \in Titles : Create("u1", title, "u1")
  \/ \E u \in Users, id \in TaskIds : StartEdit(u, id)
  \/ \E u \in Users, id \in TaskIds : EndEdit(u, id)
  \/ \E u \in Users, id \in TaskIds, body \in Bodies \cup CreatedByBodies : Update(u, id, body)
  \/ \E u \in Users, id \in TaskIds : SmartAssign(u, id)
  \/ \E u \in Users, tasks \in ReorderLists : Reorder(u, tasks)

SpecCreatedBy == Init /\ [][NextCreatedBy]_vars

\* SpecBoard: u1 creates the tasks and reorders them, the board component
\* fetches them
BoardReorderLists ==
  ReorderLists \cup
  {<<[id |-> 1, status |-> "done", order |-> 1], [id |-> 2, status |-> "done", order |-> 0]>>,
   <<[id |-> 1, status |-> "in-progress", order |-> 0]>>}

NextBoard ==
  \/ \E title \in Titles : Create(Me, title, Me)
  \/ \E tasks \in BoardReorderLists : Reorder(Me, tasks)
  \/ LoadTasks

SpecBoard == Init /\ [][NextBoard]_vars

\* The ids a drag can be over: the three columns and the cards.
OverIds == {ColumnId(status) : status \in Statuses} \cup {CardId(id) : id \in TaskIds}

\* the form data the modal sends
TaskDatas ==
  {[title |-> <<"A">>, status |-> "todo", assignedTo |-> Me],
   [title |-> <<"B">>, status |-> "done", assignedTo |-> Me]}

\* SpecEvents: the peer creates, moves and reorders tasks, the board component fetches
\* the tasks and handles the events of the peer's client
NextEvents ==
  \/ \E title \in Titles : Create(Peer, title, Peer)
  \/ \E id \in TaskIds, body \in Bodies : Update(Peer, id, body)
  \/ \E tasks \in BoardReorderLists : Reorder(Peer, tasks)
  \/ LoadTasks
  \/ \E event \in TaskEvents, id \in TaskIds : OnTaskEvent(event, id)

SpecEvents == Init /\ [][NextEvents]_vars

\* SpecDrag: the peer creates and locks tasks, the user of the board
\* component drags them
NextDrag ==
  \/ \E title \in Titles : Create(Peer, title, Peer)
  \/ \E id \in TaskIds : StartEdit(Peer, id)
  \/ LoadTasks
  \/ \E activeId \in TaskIds, overId \in OverIds : DragOver(activeId, overId)
  \/ \E activeId \in TaskIds, overId \in OverIds : DragEnd(activeId, overId)

SpecDrag == Init /\ [][NextDrag]_vars

\* SpecWrites: the peer creates, locks and deletes tasks, the user of the
\* board component drags tasks and saves them in the modal
NextWrites ==
  \/ \E title \in Titles : Create(Peer, title, Peer)
  \/ \E id \in TaskIds : StartEdit(Peer, id)
  \/ \E id \in TaskIds : Delete(Peer, id)
  \/ LoadTasks
  \/ \E activeId \in TaskIds, overId \in OverIds : DragEnd(activeId, overId)
  \/ CreateTaskClick
  \/ \E id \in TaskIds : EditTask(id)
  \/ CloseModal
  \/ \E taskData \in TaskDatas : TaskSubmit(taskData)

SpecWrites == Init /\ [][NextWrites]_vars

\* SpecLogFail: u1 creates the tasks; requests handled while the database
\* fails after the task was written, with bodies of PUT /:id that move or
\* reassign the task
LogFailBodies == {[assignedTo |-> "u2"]}

NextLogFail ==
  \/ \E title \in Titles : Create("u1", title, "u1")
  \/ \E title \in Titles : CreateLogFails("u1", title, "u1")
  \/ \E u \in Users, id \in TaskIds, body \in Bodies \cup LogFailBodies :
        UpdateLogFails(u, id, body)
  \/ \E u \in Users, id \in TaskIds : DeleteLogFails(u, id)
  \/ \E u \in Users, id \in TaskIds : SmartAssignLogFails(u, id)

SpecLogFail == Init /\ [][NextLogFail]_vars

\* SpecOrder: tasks are created, moved by PUT /:id, and put one at a time at
\* the head of the in-progress column by POST /reorder
OrderLists ==
  {<<[id |-> id, status |-> "in-progress", order |-> 0]>> : id \in TaskIds}

NextOrder ==
  \/ \E u \in Users, title \in Titles : Create(u, title, u)
  \/ \E u \in Users, id \in TaskIds, body \in Bodies : Update(u, id, body)
  \/ \E u \in Users, tasks \in OrderLists : Reorder(u, tasks)

SpecOrder == Init /\ [][NextOrder]_vars

\* SpecDelete: u1 creates tasks for either user, both users delete and
\* smart-assign
NextDelete ==
  \/ \E title \in Titles, assignedTo \in Users : Create("u1", title, assignedTo)
  \/ \E u \in Users, id \in TaskIds : Delete(u, id)
  \/ \E u \in Users, id \in TaskIds : SmartAssign(u, id)

SpecDelete == Init /\ [][NextDelete]_vars

\* SpecSocket: the socket layer.  Payloads of the client events:
Datas == {[taskId |-> 1], [taskId |-> 1, editedBy |-> "mallory", otherUser |-> "bob"]}

NextSocket ==
  \/ \E s \in SocketIds, cred \in Creds : Handshake(s, cred)
  \/ \E s \in SocketIds : Connection(s)
  \/ \E s \in SocketIds, event \in ClientEvents, data \in Datas : ClientEvent(s, event, data)
  \/ \E s \in SocketIds : Drop(s)
  \/ \E s \in SocketIds : Disconnect(s)

SpecSocket == Init /\ [][NextSocket]_vars

\* SpecSocketLock: the socket layer, with the creation of one task and
\* start-edit, so that a connected user can hold a lock
NextSocketLock ==
  \/ NextSocket
  \/ Create("u1", <<"A">>, "u1")
  \/ \E u \in Users, id \in TaskIds : StartEdit(u, id)

SpecSocketLock == Init /\ [][NextSocketLock]_vars

\* SpecTitle: the requests that write a title, create and PUT, cut at their
\* awaits.  Titles the clients send:
TitleInputs == {<<"A">>, <<"B">>, <<"A", " ">>, <<"D", "o", "n", "e">>,
                <<" ", "T", "O", " ", "D", "O">>}

TitleBodies == {[title |-> t] : t \in TitleInputs}

NextTitle ==
  \/ \E u \in Users, title \in TitleInputs : CreateRead(u, title, u)
  \/ \E u \in Users : CreateSave(u)
  \/ \E u \in Users, id \in TaskIds, body \in TitleBodies : UpdateRead(u, id, body)
  \/ \E u \in Users : Save(u)

SpecTitle == Init /\ [][NextTitle]_vars

\* SpecSelect: smart-assign on the boards of MaxTasks tasks, each task in any
\* status and assigned to any user, for every users collection User.find can
\* return.
UserLists == {<<>>, <<"u1">>, <<"u2">>, <<"u1", "u2">>, <<"u2", "u1">>}

BoardTitles == <<"A", "B", "C", "D">>

Board(status, assignedTo) ==
  [id \in TaskIds |->
     [NewTask(<<BoardTitles[id]>>, assignedTo[id], "u1", id - 1) EXCEPT !.status = status[id]]]

InitSelect ==
  /\ store \in {Board(status, assignedTo) :
                  status \in [TaskIds -> Statuses], assignedTo \in [TaskIds -> Users]}
  /\ nextId = MaxTasks + 1
  /\ now = 0
  /\ activities = <<>>
  /\ resp = NoResp
  /\ ioEvents = <<>>
  /\ reqs = [u \in Users |-> Idle]
  /\ sweep = Idle
  /\ userColl \in UserLists
  /\ sockets = [s \in SocketIds |-> NoSocket]
  /\ connectedUsers = <<>>
  /\ sent = NoSent
  /\ delivered = <<>>
  /\ InitClient

NextSelect == \E u \in Users, id \in TaskIds : SmartAssign(u, id)

SpecSelect == InitSelect /\ [][NextSelect]_vars

\* SpecFrame: the requests addressed to one task, on the board of MaxTasks
\* tasks that u1 created for u1 (the activity log counts from there); u1
\* locks, releases, deletes and smart-assigns, both users update
InitFrame ==
  /\ store = Board([id \in TaskIds |-> "todo"], [id \in TaskIds |-> "u1"])
  /\ nextId = MaxTasks + 1
  /\ now = 0
  /\ activities = <<>>
  /\ resp = NoResp
  /\ ioEvents = <<>>
  /\ reqs = [u \in Users |-> Idle]
  /\ sweep = Idle
  /\ userColl = UserList
  /\ sockets = [s \in SocketIds |-> NoSocket]
  /\ connectedUsers = <<>>
  /\ sent = NoSent
  /\ delivered = <<>>
  /\ InitClient

NextFrame ==
  \/ \E id \in TaskIds : StartEdit("u1", id)
  \/ \E id \in TaskIds : EndEdit("u1", id)
  \/ \E u \in Users, id \in TaskIds, body \in Bodies : Update(u, id, body)
  \/ \E id \in TaskIds : Delete("u1", id)
  \/ \E id \in TaskIds : SmartAssign("u1", id)

SpecFrame == InitFrame /\ [][NextFrame]_vars

\* SpecConverge: the peer creates, saves, reorders and deletes tasks; each
\* accepted request is followed by its event before the next request
NextConverge ==
  \/ (Ready(1) /\ \E title \in Titles : Create(Peer, title, Peer))
  \/ (Ready(1) /\ \E id \in TaskIds, body \in Bodies : Update(Peer, id, body))
  \/ (Ready(1) /\ \E tasks \in BoardReorderLists : Reorder(Peer, tasks))
  \/ (Ready(1) /\ \E id \in TaskIds : Delete(Peer, id))
  \/ PeerEmit
  \/ Deliver

SpecConverge == Init /\ [][NextConverge]_vars

\* SpecExpire: the peer creates a task and locks it, the clock advances, the
\* sweep fires; every event emitted is relayed and handled
NextExpire ==
  \/ (~Unsent /\ \E t \in Instants : Tick(t))
  \/ (Ready(1) /\ Create(Peer, <<"A">>, Peer))
  \/ (Ready(1) /\ \E id \in TaskIds : StartEdit(Peer, id))
  \/ (Ready(1) /\ \E id \in TaskIds : EndEdit(Peer, id))
  \/ (Ready(MaxTasks) /\ Sweep)
  \/ PeerEmit
  \/ IoEmit
  \/ Deliver

SpecExpire ==
  Init /\ [][NextExpire]_vars /\ WF_vars(PeerEmit) /\ WF_vars(IoEmit) /\ WF_vars(Deliver)

\* SpecRace: the requests on a board of one task (u1 creates "A"), the
\* handlers that save a task document cut at their awaits, the sweep cut at
\* its awaits.  Bodies of PUT /:id and of POST /reorder:
RaceBodies == {[status |-> "done"]}

RaceReorderLists == {<<[id |-> 1, status |-> "in-progress", order |-> 0]>>}

NextRace ==
  \/ \E t \in Instants : Tick(t)
  \/ Create("u1", <<"A">>, "u1")
  \/ \E u \in Users, id \in TaskIds : StartEditRead(u, id)
  \/ \E u \in Users, id \in TaskIds : EndEditRead(u, id)
  \/ \E u \in Users, id \in TaskIds, body \in RaceBodies : UpdateRead(u, id, body)
  \/ \E u \in Users, id \in TaskIds : SmartAssignRead(u, id)
  \/ \E u \in Users : SmartAssignSelect(u)
  \/ \E u \in Users : Save(u)
  \/ \E u \in Users, tasks \in RaceReorderLists : Reorder(u, tasks)
  \/ SweepFind
  \/ SweepUpdateMany
  \/ SweepEmit

SpecRace == Init /\ [][NextRace]_vars

(***************************************************************************)
(* Properties.                                                             *)
(***************************************************************************)
FiveMinutes == 5 * 60 * 1000

Unlocked(task) ==
  ~task.isBeingEdited /\ task.editedBy = NULL /\ task.editStartTime = NoTime

\* the task is locked by a user other than u
LockedByOther(task, u) ==
  task.isBeingEdited /\ task.editedBy # NULL /\ task.editedBy # u
    /\ task.editStartTime # NoTime

\* C1: in every reachable state, for every task, isBeingEdited = false iff
\* editedBy is null iff editStartTime is null, for every interleaving of the
\* read and save steps of the requests with the sweep.
C1_LockFieldsAgree ==
  \A id \in DOMAIN store :
    /\ (~store[id].isBeingEdited) <=> (store[id].editedBy = NULL)
    /\ (store[id].editedBy = NULL) <=> (store[id].editStartTime = NoTime)

\* C2: start-edit by U on a task locked by another user: a lock younger than
\* 5 minutes gives 409 and leaves the task (holder, timestamp, version)
\* unchanged; a lock older than 5 minutes gives success, and the holder
\* becomes U with the time of the call as lock timestamp.
C2_StartEditOtherHolder ==
  (resp.op = "start-edit" /\ resp.task # NoDoc /\ LockedByOther(resp.task, resp.user)) =>
    /\ (now - resp.task.editStartTime < FiveMinutes) =>
         (resp.code = 409 /\ store[resp.id] = resp.task)
    /\ (now - resp.task.editStartTime > FiveMinutes) =>
         /\ resp.code = 200
         /\ store[resp.id].isBeingEdited
         /\ store[resp.id].editedBy = resp.user
         /\ store[resp.id].editStartTime = now
         /\ store[resp.id].version = resp.task.version

\* C2 witness: a start-edit was refused with 409 on a lock another user took
\* less than 5 minutes before.
C2_Witness ==
  /\ resp.op = "start-edit" /\ resp.code = 409
  /\ resp.task # NoDoc /\ LockedByOther(resp.task, resp.user)
  /\ now - resp.task.editStartTime < FiveMinutes
  /\ now > resp.task.editStartTime

\* a start-edit took over a lock another user held for more than 5 minutes
C2_StealReached ==
  /\ resp.op = "start-edit" /\ resp.code = 200
  /\ resp.task # NoDoc /\ LockedByOther(resp.task, resp.user)
  /\ now - resp.task.editStartTime > FiveMinutes

\* C3 (as claimed): start-edit by the user who holds the lock returns success
\* and leaves the task record identical.
C3_ReacquireNoChange ==
  (resp.op = "start-edit" /\ resp.task # NoDoc /\ resp.task.isBeingEdited
     /\ resp.task.editedBy = resp.user) =>
    (resp.code = 200 /\ store[resp.id] = resp.task)

\* C3 (amended): start-edit by the user who holds the lock returns success and
\* leaves the task record identical except for editStartTime, which becomes
\* the time of the call.
C3_ReacquireRefreshesTime ==
  (resp.op = "start-edit" /\ resp.task # NoDoc /\ resp.task.isBeingEdited
     /\ resp.task.editedBy = resp.user) =>
    (resp.code = 200 /\ store[resp.id] = [resp.task EXCEPT !.editStartTime = now])

\* C3 witness: the holder called start-edit again at a later time.
C3_Witness ==
  /\ resp.op = "start-edit" /\ resp.code = 200
  /\ resp.task # NoDoc /\ resp.task.isBeingEdited /\ resp.task.editedBy = resp.user
  /\ resp.task.editStartTime < now

\* C4: end-edit by U on an existing task always returns success; it clears the
\* three lock fields when U holds the lock and changes no field otherwise.
C4_EndEditOnlyHolder ==
  (resp.op = "end-edit" /\ resp.task # NoDoc) =>
    /\ resp.code = 200
    /\ store[resp.id] =
         IF resp.task.editedBy = resp.user
         THEN [resp.task EXCEPT !.isBeingEdited = FALSE, !.editedBy = NULL,
                                !.editStartTime = NoTime]
         ELSE resp.task

\* C4 witness: end-edit by a user on a task that another user holds.
C4_Witness ==
  /\ resp.op = "end-edit" /\ resp.code = 200
  /\ resp.task # NoDoc /\ LockedByOther(resp.task, resp.user)
  /\ store[resp.id].editedBy = resp.task.editedBy

\* C4: the holder released its lock
C4_ReleaseReached ==
  /\ resp.op = "end-edit" /\ resp.code = 200
  /\ resp.task # NoDoc /\ resp.task.isBeingEdited /\ resp.task.editedBy = resp.user
  /\ Unlocked(store[resp.id])

\* C5: an update by U of a task locked by another user for less than 5 minutes
\* is answered 409 with conflict = true, changes no task and appends no
\* activity.
C5_UpdateConflictRejected ==
  [][(/\ resp'.op = "update"
      /\ resp'.task # NoDoc
      /\ resp'.id \in DOMAIN store
      /\ resp'.task = store[resp'.id]
      /\ LockedByOther(store[resp'.id], resp'.user)
      /\ now - store[resp'.id].editStartTime < FiveMinutes)
     => (/\ resp'.code = 409 /\ resp'.conflict
         /\ store' = store
         /\ activities' = activities)]_vars

\* C5 witness: an update was answered with the conflict signal.
C5_Witness ==
  /\ resp.op = "update" /\ resp.code = 409 /\ resp.conflict
  /\ resp.task # NoDoc /\ LockedByOther(resp.task, resp.user)
  /\ now - resp.task.editStartTime < FiveMinutes

\* C6: update, smart-assign and delete of a task locked by a user other than
\* the requester for less than 5 minutes are answered 409.
C6_ConflictCheckOnEveryWrite ==
  (/\ resp.op \in {"update", "smart-assign", "delete"}
   /\ resp.task # NoDoc
   /\ LockedByOther(resp.task, resp.user)
   /\ now - resp.task.editStartTime < FiveMinutes)
  => resp.code = 409

\* C7: after every accepted update or smart-assign the task is unlocked.
C7_AcceptedWriteUnlocks ==
  (/\ resp.op \in {"update", "smart-assign"}
   /\ resp.code = 200
   /\ resp.id \in DOMAIN store)
  => Unlocked(store[resp.id])

\* C8: every accepted update or smart-assign leaves the stored version equal
\* to the stored version immediately before its save plus 1, also when the
\* read and save steps of concurrent requests interleave.
C8_VersionPlusOne ==
  [][\A u \in Users :
       (/\ reqs[u].pc = "save"
        /\ reqs[u].op \in {"update", "smart-assign"}
        /\ reqs[u].id \in DOMAIN store
        /\ Save(u)
        /\ resp'.code = 200)
       => store'[reqs[u].id].version = store[reqs[u].id].version + 1]_vars

\* C9: the version of a task never decreases and never skips a value, for
\* every body an update can carry.
C9_VersionNeverDecreasesOrSkips ==
  [][\A id \in DOMAIN store \cap DOMAIN store' :
       store'[id].version \in {store[id].version, store[id].version + 1}]_vars

\* C10: one run of the sweep releases every task whose lock is older than
\* 5 minutes, leaves every task whose lock is younger untouched, and emits
\* exactly one edit_session_expired per task it released and none for any
\* other task.
C10_SweepReleasesStale ==
  [][(resp'.op = "none" /\ now' = now /\ Sweep) =>
       LET released == {id \in DOMAIN store :
                          store[id].isBeingEdited /\ ~store'[id].isBeingEdited}
           EventsFor(id) == {i \in 1..Len(ioEvents') :
                               /\ ioEvents'[i].event = "edit_session_expired"
                               /\ ioEvents'[i].taskId = id}
       IN /\ DOMAIN store' = DOMAIN store
          /\ \A id \in DOMAIN store :
               /\ (/\ store[id].isBeingEdited /\ store[id].editStartTime # NoTime
                   /\ now - store[id].editStartTime > FiveMinutes)
                  => (id \in released /\ Unlocked(store'[id]))
               /\ (/\ store[id].isBeingEdited /\ store[id].editStartTime # NoTime
                   /\ now - store[id].editStartTime < FiveMinutes)
                  => store'[id] = store[id]
               /\ Cardinality(EventsFor(id)) = IF id \in released THEN 1 ELSE 0
          /\ \A i \in 1..Len(ioEvents') : ioEvents'[i].taskId \in released]_vars

\* C10 witness: the sweep released one task and emitted its event while
\* another task keeps a lock younger than 5 minutes.
C10_Witness ==
  /\ Len(ioEvents) = 1
  /\ ioEvents[1].taskId \in DOMAIN store
  /\ Unlocked(store[ioEvents[1].taskId])
  /\ \E id \in DOMAIN store :
       /\ store[id].isBeingEdited
       /\ now - store[id].editStartTime < FiveMinutes

\* C11: a lock taken at an instant that lies more than 5 minutes before a
\* later instant does not stay: when the clock advances and the sweep keeps
\* running, the task is eventually deleted, unlocked, or locked anew by a
\* later request; and a start-edit by another user on a lock that is
\* 5 minutes old or older succeeds and makes the requester the holder.
C11_AbandonedLockReleased ==
  /\ \A id \in TaskIds :
     \A s \in {i \in Instants : \E t \in Instants : t - i > FiveMinutes} :
       (/\ id \in DOMAIN store
        /\ store[id].isBeingEdited /\ store[id].editedBy \in Users
        /\ store[id].editStartTime = s)
       ~> (\/ id \notin DOMAIN store
           \/ Unlocked(store[id])
           \/ store[id].isBeingEdited /\ store[id].editStartTime > s)
  /\ [](( /\ resp.op = "start-edit" /\ resp.task # NoDoc
          /\ LockedByOther(resp.task, resp.user)
          /\ now - resp.task.editStartTime >= FiveMinutes)
        => (/\ resp.code = 200
            /\ store[resp.id].isBeingEdited
            /\ store[resp.id].editedBy = resp.user))

\* C11 witness: the sweep released a lock that nobody renewed or took over
\* for more than 5 minutes.
C11_Witness ==
  /\ resp.op = "none"
  /\ \E i \in 1..Len(ioEvents) :
       /\ ioEvents[i].event = "edit_session_expired"
       /\ ioEvents[i].taskId \in DOMAIN store
       /\ Unlocked(store[ioEvents[i].taskId])
  /\ now > FiveMinutes

\* the user of socket s has an entry in the presence registry
Registered(u) == \E i \in 1..Len(connectedUsers) : connectedUsers[i].userId = u

\* the events of the step just taken that reached socket o under the name event
Received(o, event) ==
  {i \in 1..Len(delivered) : delivered[i].to = o /\ delivered[i].event = event}

\* C12: when the disconnect handler of a connection whose user holds a task
\* lock has run, that lock is cleared in the task store, and every remaining
\* connection has received user_offline and an edit_ended that names the
\* released task.
C12_DisconnectReleasesLock ==
  [][\A s \in SocketIds :
       Disconnect(s) =>
         LET u == sockets[s].userId
             held == {id \in DOMAIN store :
                        store[id].isBeingEdited /\ store[id].editedBy = u}
             remaining == {o \in SocketIds \ {s} : sockets'[o].state \in {"connecting", "active"}}
         IN /\ \A id \in held : Unlocked(store'[id])
            /\ \A o \in remaining :
                 /\ \E i \in 1..Len(delivered') :
                      delivered'[i].to = o /\ delivered'[i].event = "user_offline"
                 /\ \A id \in held :
                      \E i \in 1..Len(delivered') :
                        /\ delivered'[i].to = o /\ delivered'[i].event = "edit_ended"
                        /\ "taskId" \in DOMAIN delivered'[i].payload
                        /\ delivered'[i].payload.taskId = id]_vars

\* the event names the server relays
RelayedEvents == ClientEvents \ {"ping"}

\* C13: an event with a relayed name sent by an active connection X is
\* delivered to every other connected socket and is not delivered to X.
C13_NoEcho ==
  (sent.event \in RelayedEvents /\ sockets[sent.socket].state = "active") =>
    /\ \A o \in SocketIds \ {sent.socket} :
         Connected(o) => Received(o, sent.event) # {}
    /\ \A i \in 1..Len(delivered) : delivered[i].to # sent.socket

\* the state-changing client events of C14
StateChangingEvents ==
  {"task_created", "task_updated", "task_deleted", "task_moved", "tasks_reordered",
   "edit_started", "edit_ended", "typing_start", "typing_stop", "cursor_position"}

\* C14: the payload of a relayed state-changing client event, as delivered to
\* the other connections, is the payload the sender sent.
C14_PayloadVerbatim ==
  (sent.event \in StateChangingEvents) =>
    \A i \in 1..Len(delivered) :
      delivered[i].event = sent.event => delivered[i].payload = sent.data

\* C15: when the connection handler of socket s has run, the user of s is in
\* the presence registry with s as its socket, every other connected socket
\* has received exactly one user_online for that user and s none, and
\* online_users was delivered after every user_online, to s only, with one
\* entry per registry entry in registry order (the user of s included).
C15_ConnectOrder ==
  (sent.event = "connection") =>
    LET s == sent.socket
        u == sockets[s].userId
    IN /\ \E i \in 1..Len(connectedUsers) :
            connectedUsers[i].userId = u /\ connectedUsers[i].socketId = s
       /\ \A o \in SocketIds \ {s} :
            Connected(o) =>
              /\ Cardinality(Received(o, "user_online")) = 1
              /\ \A i \in Received(o, "user_online") :
                   delivered[i].payload = [userId |-> u, username |-> username(u)]
       /\ Received(s, "user_online") = {}
       /\ \A i \in 1..Len(delivered) :
            delivered[i].event = "online_users" =>
              /\ delivered[i].to = s
              /\ i = Len(delivered)
              /\ Len(delivered[i].payload) = Len(connectedUsers)
              /\ \A k \in 1..Len(connectedUsers) :
                   /\ delivered[i].payload[k].id = connectedUsers[k].userId
                   /\ delivered[i].payload[k].username = username(connectedUsers[k].userId)
       /\ Connected(s) => Cardinality(Received(s, "online_users")) = 1

\* C15 witness: a connection became active while another user's connection
\* was connected and registered.
C15_Witness ==
  /\ sent.event = "connection"
  /\ sockets[sent.socket].state = "active"
  /\ Len(connectedUsers) = 2
  /\ \E o \in SocketIds \ {sent.socket} :
       /\ sockets[o].state = "active"
       /\ Received(o, "user_online") # {}
  /\ Received(sent.socket, "online_users") # {}

\* C16: when no connection handler and no disconnect handler is in progress,
\* an identity has an entry in the presence registry iff it has a live
\* connection.
C16_PresenceIffLive ==
  (\A s \in SocketIds : sockets[s].state \notin {"connecting", "dropped", "closing"}) =>
    \A u \in Users :
      Registered(u) <=> (\E s \in SocketIds : sockets[s].state = "active" /\ sockets[s].userId = u)

\* C17: a socket opened with a missing or invalid credential, or with a
\* credential of no user, is rejected; a rejected socket stays rejected, is
\* never a socket of the presence registry, causes no delivery when it is
\* opened, and nothing is delivered when its client sends an event.
C17_RejectedNeverActive ==
  [][/\ \A s \in SocketIds, cred \in Creds :
          (/\ Handshake(s, cred)
           /\ \/ cred \in {"none", "bad"}
              \/ \A i \in 1..Len(userColl) : userColl[i] # cred)
          => sockets'[s].state = "rejected"
     /\ \A s \in SocketIds :
          /\ sockets[s].state = "rejected" => sockets'[s].state = "rejected"
          /\ sockets'[s].state = "rejected" =>
               /\ \A i \in 1..Len(connectedUsers') : connectedUsers'[i].socketId # s
               /\ sent'.socket = s => delivered' = <<>>]_vars

\* C17 witness: the client of a rejected socket sent an event while another
\* socket was active, and nothing was delivered.
C17_Witness ==
  /\ sent.event \in RelayedEvents
  /\ sockets[sent.socket].state = "rejected"
  /\ \E o \in SocketIds : sockets[o].state = "active"
  /\ delivered = <<>>

ReservedNames ==
  {<<"t", "o", "d", "o">>,
   <<"i", "n", " ", "p", "r", "o", "g", "r", "e", "s", "s">>,
   <<"d", "o", "n", "e">>,
   <<"t", "o", " ", "d", "o">>,
   <<"i", "n", "-", "p", "r", "o", "g", "r", "e", "s", "s">>}

\* the title equals a reserved column name, case-insensitively
Reserved(title) ==
  \E name \in ReservedNames :
    /\ Len(name) = Len(title)
    /\ \A i \in 1..Len(name) : LowerChar(title[i]) = name[i]

\* C19: no task has a title equal, case-insensitively, to a reserved column
\* name; the save of a create or of an update that sets such a title is
\* answered 400, changes no task and appends no activity.
C19_NoReservedTitle ==
  /\ [](\A id \in DOMAIN store : ~Reserved(store[id].title))
  /\ [][\A u \in Users :
          /\ (CreateSave(u) /\ Reserved(reqs[u].doc.title))
             => (/\ resp'.code = 400
                 /\ store' = store /\ nextId' = nextId /\ activities' = activities)
          /\ (Save(u) /\ reqs[u].op = "update" /\ Reserved(reqs[u].doc.title))
             => (/\ resp'.code = 400
                 /\ store' = store /\ activities' = activities)]_vars

\* C19 witness: a create with a title that differs from a reserved name only
\* by case or by blanks at its ends was answered 400.
C19_Witness ==
  /\ resp.op = "create" /\ resp.code = 400
  /\ resp.task # NoDoc
  /\ Reserved(resp.task.title)
  /\ resp.task.title \notin ReservedNames

\* the number of tasks of st in status todo or in-progress assigned to u
Load(st, u) ==
  Cardinality({t \in DOMAIN st :
                 st[t].assignedTo = u /\ st[t].status \in {"todo", "in-progress"}})

\* C20: smart-assign assigns the task to the user of the user list with the
\* fewest tasks in status todo or in-progress, the first such user of the
\* list on a tie (so the list and the counts determine the result); with an
\* empty user list it is answered 400 and leaves the task unchanged.
C20_SmartAssignSelection ==
  [][\A u \in Users, id \in DOMAIN store :
       SmartAssign(u, id) =>
         IF Len(userColl) = 0
         THEN /\ resp'.code = 400
              /\ store'[id].assignedTo = store[id].assignedTo
              /\ store'[id].version = store[id].version
         ELSE \E k \in 1..Len(userColl) :
                /\ resp'.code = 200
                /\ store'[id].assignedTo = userColl[k]
                /\ \A j \in 1..Len(userColl) :
                     Load(store, userColl[k]) <= Load(store, userColl[j])
                /\ \A j \in 1..(k - 1) :
                     Load(store, userColl[j]) > Load(store, userColl[k])]_vars

\* C20 witness: two users had the same number of active tasks, and
\* smart-assign chose the one that comes first in the user list, which is not
\* the task's previous assignee.
C20_Witness ==
  /\ resp.op = "smart-assign" /\ resp.code = 200
  /\ userColl = <<"u2", "u1">>
  /\ LET before == [store EXCEPT ![resp.id] = resp.task]
     IN /\ Load(before, "u1") = Load(before, "u2")
        /\ Load(before, "u1") > 0
  /\ resp.task.assignedTo = "u1"
  /\ store[resp.id].assignedTo = "u2"

\* smart-assign with an empty user list was answered 400
C20_EmptyReached ==
  /\ resp.op = "smart-assign" /\ resp.code = 400
  /\ userColl = <<>>

(***************************************************************************)
(* C21: every accepted mutation (create, update, delete, smart-assign,     *)
(* reorder) appends at least one activity record that references the       *)
(* acting user; an accepted reorder and an accepted update that increments *)
(* the version each leave a new record.                                    *)
(***************************************************************************)
Mutations == {"create", "update", "delete", "smart-assign", "reorder"}

Accepted(r) == r.op \in Mutations /\ r.code \in {200, 201}

C21_AcceptedMutationLogged ==
  [][Accepted(resp') =>
       /\ Len(activities') > Len(activities)
       /\ \E i \in (Len(activities) + 1)..Len(activities') :
            activities'[i].userId = resp'.user]_vars

(***************************************************************************)
(* C23: the activity log is append-only: every step keeps the records      *)
(* already in the log, unchanged and in place, also the step that deletes  *)
(* the task a record references.                                           *)
(***************************************************************************)
C23_LogAppendOnly ==
  [][/\ Len(activities') >= Len(activities)
     /\ SubSeq(activities', 1, Len(activities)) = activities]_vars

\* a task was deleted and the record of its creation is still in the log
C23_Witness ==
  /\ resp.op = "delete" /\ resp.code = 200
  /\ resp.id \notin DOMAIN store
  /\ \E i \in 1..Len(activities) :
       activities[i].taskId = resp.id /\ activities[i].action = "create"

(***************************************************************************)
(* C24: a delete request for an existing task removes the task when the    *)
(* requester is its creator or its current assignee; any other requester   *)
(* is answered 403 and the task and the activity log are unchanged.        *)
(***************************************************************************)
C24_DeleteOnlyCreatorOrAssignee ==
  [][(resp'.op = "delete" /\ resp'.id \in DOMAIN store) =>
       LET task == store[resp'.id]
           u == resp'.user
       IN IF u = task.createdBy \/ u = task.assignedTo
          THEN resp'.code = 200 /\ resp'.id \notin DOMAIN store'
          ELSE resp'.code = 403 /\ store' = store /\ activities' = activities]_vars

\* a third party was refused
C24_Witness ==
  /\ resp.op = "delete" /\ resp.code = 403
  /\ resp.id \in DOMAIN store
  /\ resp.user \notin {store[resp.id].createdBy, store[resp.id].assignedTo}

\* the assignee, who is not the creator, deleted the task
C24_AssigneeReached ==
  /\ resp.op = "delete" /\ resp.code = 200
  /\ resp.task.assignedTo = resp.user /\ resp.task.createdBy # resp.user

(***************************************************************************)
(* C25: the createdBy field of a task never changes after creation,        *)
(* whatever the bodies of the requests.                                    *)
(***************************************************************************)
C25_CreatedByFixed ==
  [][\A id \in DOMAIN store \cap DOMAIN store' :
       store'[id].createdBy = store[id].createdBy]_vars

(***************************************************************************)
(* C26: every operation that addresses a task id that is not in the store  *)
(* (update, delete, smart-assign, start-edit, end-edit, and each entry of  *)
(* a reorder) is answered not-found and changes neither the store nor the  *)
(* activity log.                                                           *)
(***************************************************************************)
ByIdOps == {"update", "delete", "smart-assign", "start-edit", "end-edit"}

C26_UnknownIdNotFound ==
  [][/\ (resp'.op \in ByIdOps /\ resp'.id \notin DOMAIN store) =>
          resp'.code = 404 /\ store' = store /\ activities' = activities
     /\ \A u \in Users, tasks \in ReorderLists :
          (Reorder(u, tasks) /\ \E i \in 1..Len(tasks) : tasks[i].id \notin DOMAIN store) =>
             resp'.code = 404 /\ store' = store /\ activities' = activities]_vars

(***************************************************************************)
(* C22: a failure while recording activity never fails the mutation: when  *)
(* the task change has been persisted, the request is answered with its    *)
(* success response, also when every step of the activity recording fails. *)
(***************************************************************************)
C22_LogFailureNeverFailsMutation ==
  [][(resp'.op \in Mutations /\ store' # store) => resp'.code \in {200, 201}]_vars

(***************************************************************************)
(* C27: an accepted reorder stores the (status, order) pair of each entry  *)
(* on its task, and the board that loadTasks builds from a full fetch      *)
(* holds, in the column of each status, exactly the tasks stored with that *)
(* status, with their stored order values, in ascending order.             *)
(***************************************************************************)
Ascending(column) ==
  \A i, j \in 1..Len(column) : i < j => column[i].order <= column[j].order

BoardShowsStore(board, st) ==
  \A s \in Statuses :
    /\ \A i \in 1..Len(board[s]) :
         /\ board[s][i]._id \in DOMAIN st
         /\ board[s][i] = ClientTask(st, board[s][i]._id)
         /\ st[board[s][i]._id].status = s
    /\ \A id \in DOMAIN st :
         st[id].status = s => Cardinality({i \in 1..Len(board[s]) : board[s][i]._id = id}) = 1
    /\ Ascending(board[s])

\* entry i is the last entry of the list for its task
LastEntry(tasks, i) == \A j \in (i + 1)..Len(tasks) : tasks[j].id # tasks[i].id

C27_ReorderThenFetch ==
  /\ [](clientOut.handler = "loadTasks" => BoardShowsStore(tasksByStatus, store))
  /\ [][\A tasks \in BoardReorderLists :
          Reorder(Me, tasks) =>
            /\ resp'.code = 200
            /\ \A i \in 1..Len(tasks) :
                 (tasks[i].id \in DOMAIN store /\ LastEntry(tasks, i)) =>
                    /\ store'[tasks[i].id].status = tasks[i].status
                    /\ store'[tasks[i].id].order = tasks[i].order]_vars

\* fetched after a reorder that moved both tasks to done, task 2 first
C27_Witness ==
  /\ clientOut.handler = "loadTasks"
  /\ Len(tasksByStatus["done"]) = 2
  /\ tasksByStatus["done"][1] = [_id |-> 2, status |-> "done", order |-> 0, isBeingEdited |-> FALSE]
  /\ tasksByStatus["done"][2] = [_id |-> 1, status |-> "done", order |-> 1, isBeingEdited |-> FALSE]

(***************************************************************************)
(* C28: after the board component handled a task_created, task_updated or  *)
(* task_moved event as another client emits it, the task of the event is   *)
(* in the column of its new status, in no other column and there once, and *)
(* every column is sorted by order.                                        *)
(***************************************************************************)
InColumnOnly(board, id, status) ==
  /\ status \in Statuses
  /\ Cardinality({i \in 1..Len(board[status]) : board[status][i]._id = id}) = 1
  /\ \A s \in Statuses \ {status} : \A i \in 1..Len(board[s]) : board[s][i]._id # id

C28_InboundEventMovesTask ==
  clientOut.handler = "handleTaskUpdate" =>
    /\ ~clientOut.threw
    /\ InColumnOnly(tasksByStatus, clientOut.id, clientOut.status)
    /\ \A s \in Statuses : Ascending(tasksByStatus[s])

(***************************************************************************)
(* C29: a drag of a task over a column or over a card computes a target    *)
(* status that is one of the three status values; handleDragOver leaves    *)
(* the task in exactly the column of that status.                          *)
(***************************************************************************)
C29_DragTargetIsStatus ==
  clientOut.handler \in {"handleDragOver", "handleDragEnd"} =>
    /\ clientOut.status \in Statuses
    /\ clientOut.handler = "handleDragOver" =>
         /\ ~clientOut.threw
         /\ InColumnOnly(tasksByStatus, clientOut.id, clientOut.status)

(***************************************************************************)
(* C30: when the server refuses a write the board component issued (the    *)
(* move or the reorder of a drag, the save of the modal), the component    *)
(* re-fetches the task list: its board afterwards is the board loadTasks   *)
(* builds from the store.                                                  *)
(***************************************************************************)
WriteHandlers == {"handleDragEnd", "handleTaskSubmit"}

C30_RejectedWriteRefetches ==
  (clientOut.handler \in WriteHandlers /\ clientOut.failed) =>
     tasksByStatus = loadTasks(NoTasks, getTasks(store))

\* a task_created event put the task of the peer on the board
C28_CreatedHandled ==
  /\ clientOut.handler = "handleTaskUpdate" /\ ~clientOut.threw
  /\ InColumnOnly(tasksByStatus, clientOut.id, clientOut.status)
  /\ Len(tasksByStatus[clientOut.status]) = 2

\* a drag over the done column moved the task there
C29_DoneColumnReached ==
  /\ clientOut.handler = "handleDragOver" /\ ~clientOut.threw
  /\ clientOut.status = "done"
  /\ InColumnOnly(tasksByStatus, clientOut.id, "done")

\* a refused move of a drag was followed by the fetch
C30_DragRefetchReached ==
  /\ clientOut.handler = "handleDragEnd" /\ clientOut.failed
  /\ resp.code = 409
  /\ tasksByStatus = loadTasks(NoTasks, getTasks(store))

(***************************************************************************)
(* C39: the three expiry tests agree for every age of a lock, the age of   *)
(* exactly 5 minutes included: for a task locked by another user, POST     *)
(* /:id/start-edit lets the caller take the lock over iff PUT /:id lets    *)
(* the caller write iff the query of the sweep selects the task.           *)
(***************************************************************************)
C39_ExpiryTestsAgree ==
  \A id \in DOMAIN store : \A u \in Users :
    LockedByOther(store[id], u) =>
      /\ (~StartEditConflict(store[id], u, now)) <=> (~UpdateConflict(store[id], u, now))
      /\ (~UpdateConflict(store[id], u, now)) <=> Stale(store[id], now - staleTimeout)

\* the lock of the task is held and was taken less than 5 minutes before t
FreshLock(task, t) ==
  task.isBeingEdited /\ task.editedBy # NULL /\ task.editStartTime # NoTime
    /\ t - task.editStartTime < FiveMinutes

(***************************************************************************)
(* C32: for every interleaving of the find, updateMany and emit steps of   *)
(* the sweep with the read and save steps of a start-edit, the updateMany  *)
(* of the sweep leaves a lock taken less than 5 minutes ago as it is, and  *)
(* no edit_session_expired is emitted for a task that holds such a lock at *)
(* the moment of the emit.                                                 *)
(***************************************************************************)
C32_SweepSparesFreshLock ==
  /\ [](\A i \in 1..Len(ioEvents) :
          (ioEvents[i].event = "edit_session_expired"
             /\ ioEvents[i].taskId \in DOMAIN store) =>
            ~FreshLock(store[ioEvents[i].taskId], now))
  /\ [][(sweep.pc = "updateMany" /\ sweep'.pc = "emit") =>
          \A id \in DOMAIN store :
            FreshLock(store[id], now) => (id \in DOMAIN store' /\ store'[id] = store[id])]_vars

(***************************************************************************)
(* C33: for every interleaving of the start-edit requests of two users on  *)
(* one task, start-edit is never answered with success to a user while     *)
(* the task holds the lock of another user taken less than 5 minutes ago.  *)
(***************************************************************************)
C33_LockGrantsExclusive ==
  [][(resp'.op = "start-edit" /\ resp'.code = 200 /\ resp'.id \in DOMAIN store) =>
       ~(LockedByOther(store[resp'.id], resp'.user)
           /\ FreshLock(store[resp'.id], now))]_vars

(***************************************************************************)
(* C34: for every interleaving of the update of U with the start-edit of   *)
(* V, the update of U is never saved on a task that, when the save runs,   *)
(* holds the lock of another user taken less than 5 minutes ago.           *)
(***************************************************************************)
C34_UpdateRespectsFreshLock ==
  [][(resp'.op = "update" /\ resp'.code = 200 /\ resp'.id \in DOMAIN store
        /\ store' # store) =>
       ~(LockedByOther(store[resp'.id], resp'.user)
           /\ FreshLock(store[resp'.id], now))]_vars

(***************************************************************************)
(* C38: an error response implies no state change: when update,            *)
(* smart-assign, create, delete, start-edit or end-edit is answered with a *)
(* 4xx or 5xx status, the task store is the store of before the request.   *)
(***************************************************************************)
ErrorFreeOps == {"update", "smart-assign", "create", "delete", "start-edit", "end-edit"}

C38_ErrorLeavesStore ==
  [][(resp'.op \in ErrorFreeOps /\ resp'.code >= 400) => store' = store]_vars

(***************************************************************************)
(* C37: in every reachable state, two stored tasks with the same status    *)
(* have different order values, after any sequence of create, update       *)
(* (which may change the status and leave the order) and reorder.          *)
(***************************************************************************)
C37_OrderDistinctInColumn ==
  \A a \in DOMAIN store, b \in DOMAIN store :
    (a # b /\ store[a].status = store[b].status) => store[a].order # store[b].order

(***************************************************************************)
(* C35: start-edit, end-edit, update, smart-assign and delete addressed to *)
(* a task leave every field of every other task as it was, and a request   *)
(* is refused for a lock (409) only when the task it is addressed to holds *)
(* the lock of another user: the lock of a different task never does it.   *)
(***************************************************************************)
SingleTaskOps == {"start-edit", "end-edit", "update", "smart-assign", "delete"}

C35_OtherTasksUntouched ==
  [][(resp'.op \in SingleTaskOps) =>
       /\ \A o \in DOMAIN store \ {resp'.id} : o \in DOMAIN store' /\ store'[o] = store[o]
       /\ (resp'.code = 409) =>
            (resp'.id \in DOMAIN store /\ LockedByOther(store[resp'.id], resp'.user))]_vars

\* C35 witness: u2 has just updated a task while another task holds the
\* lock of u1
C35_Witness ==
  /\ resp.op = "update" /\ resp.code = 200 /\ resp.user = "u2"
  /\ resp.id \in DOMAIN store /\ store[resp.id] # resp.task
  /\ \E o \in DOMAIN store \ {resp.id} :
        store[o].isBeingEdited /\ store[o].editedBy = "u1"

(***************************************************************************)
(* C40: every task_created, task_updated, task_deleted, task_moved event a *)
(* client receives is about a mutation the store accepted before: the task *)
(* the event names was created at some time (its id was given out), and    *)
(* the task of a task_deleted event is no longer stored.                   *)
(***************************************************************************)
TaskEventNames == {"task_created", "task_updated", "task_deleted", "task_moved"}

C40_TaskEventFollowsMutation ==
  \A i \in 1..Len(delivered) :
    (delivered[i].event \in TaskEventNames) =>
       /\ delivered[i].payload.taskId < nextId
       /\ (delivered[i].event = "task_deleted") =>
             delivered[i].payload.taskId \notin DOMAIN store

(***************************************************************************)
(* C31: convergence.  When no event waits at the server, at the peer or at *)
(* the board component (every event of every accepted request has been     *)
(* relayed and handled), the columns of the board component hold exactly   *)
(* the tasks of the store, each in the column of its stored status and     *)
(* with its stored values, without a fetch the user asks for.              *)
(***************************************************************************)
C31_ViewConverges ==
  (inbox = <<>> /\ ~Unsent) => BoardShowsStore(tasksByStatus, store)

\* the board component shows the task as being edited
ShowsEditing(id) ==
  \E s \in Statuses : \E i \in 1..Len(tasksByStatus[s]) :
    tasksByStatus[s][i]._id = id /\ tasksByStatus[s][i].isBeingEdited

\* the edit_session_expired of the task waits at the board component
ExpiredRelayed(id) ==
  \E i \in 1..Len(inbox) :
    inbox[i].event = "edit_session_expired" /\ inbox[i].data.taskId = id

(***************************************************************************)
(* C36: after the sweep released the lock of a task and its                *)
(* edit_session_expired was relayed, a board component that shows the task *)
(* as being edited eventually shows it as not being edited.                *)
(***************************************************************************)
C36_ExpiredLockShownReleased ==
  \A id \in TaskIds : (ExpiredRelayed(id) /\ ShowsEditing(id)) ~> ~ShowsEditing(id)

====
